---- MODULE Spec2Model ----
(***************************************************************************)
(* mkrel: Git Flow release and hotfix workflows (package flow), the git    *)
(* Repository wrapper with its Executor (package git) and the CalVer and   *)
(* SemVer versioners (package version).                                    *)
(*                                                                         *)
(* Strings the program takes apart (branch names, tags, versions) are      *)
(* sequences of one-character strings; error messages, which the program   *)
(* only returns, are plain strings.                                        *)
(***************************************************************************)
EXTENDS Integers, Sequences, FiniteSets, TLC

(***************************************************************************)
(* Bounds of the model.                                                    *)
(***************************************************************************)
\* the clock takes the days 1..MaxDay
MaxDay == 2
\* a finish command is taken only while the commands have made fewer than
\* MaxTags tags
MaxTags == 1

(***************************************************************************)
(* Strings.                                                                *)
(***************************************************************************)
DigitChars == <<"0", "1", "2", "3", "4", "5", "6", "7", "8", "9">>

IsDigit(c) == \E i \in 1..10 : DigitChars[i] = c

DigitVal(c) == (CHOOSE i \in 1..10 : DigitChars[i] = c) - 1

AllDigits(s) == \A i \in 1..Len(s) : IsDigit(s[i])

RECURSIVE Itoa(_)
\* fmt "%d" of a natural number
Itoa(n) == IF n < 10 THEN <<DigitChars[n + 1]>>
           ELSE Itoa(n \div 10) \o <<DigitChars[(n % 10) + 1]>>

\* fmt "%02d" of a natural number
Pad2(n) == IF n < 10 THEN <<"0">> \o Itoa(n) ELSE Itoa(n)

RECURSIVE Atoi(_)
\* strconv.Atoi / ParseUint of a string of digits
Atoi(s) == IF s = <<>> THEN 0
           ELSE Atoi(SubSeq(s, 1, Len(s) - 1)) * 10 + DigitVal(s[Len(s)])

\* strings.HasPrefix
HasPrefix(s, p) == Len(s) >= Len(p) /\ SubSeq(s, 1, Len(p)) = p

\* strings.TrimPrefix
TrimPrefix(s, p) == IF HasPrefix(s, p) THEN SubSeq(s, Len(p) + 1, Len(s)) ELSE s

\* strings.Index of a one-character separator: 0 when absent (Go: -1)
IndexOf(s, c) == IF \E i \in 1..Len(s) : s[i] = c
                 THEN CHOOSE i \in 1..Len(s) : s[i] = c /\ \A j \in 1..(i - 1) : s[j] # c
                 ELSE 0

RECURSIVE Split(_, _)
\* strings.Split on a one-character separator
Split(s, c) == LET i == IndexOf(s, c)
               IN IF i = 0 THEN <<s>>
                  ELSE <<SubSeq(s, 1, i - 1)>> \o Split(SubSeq(s, i + 1, Len(s)), c)

RECURSIVE TrimLeftSpace(_)
TrimLeftSpace(s) == IF s # <<>> /\ Head(s) = " " THEN TrimLeftSpace(Tail(s)) ELSE s

RECURSIVE TrimRightSpace(_)
TrimRightSpace(s) == IF s # <<>> /\ s[Len(s)] = " "
                     THEN TrimRightSpace(SubSeq(s, 1, Len(s) - 1)) ELSE s

\* strings.TrimSpace
TrimSpace(s) == TrimRightSpace(TrimLeftSpace(s))

StrV == <<"v">>
StrReleasePrefix == <<"r", "e", "l", "e", "a", "s", "e", "/">>
StrHotfixPrefix == <<"h", "o", "t", "f", "i", "x", "/">>
StrMain == <<"m", "a", "i", "n">>
StrMaster == <<"m", "a", "s", "t", "e", "r">>
StrDevelop == <<"d", "e", "v", "e", "l", "o", "p">>
StrDevelopment == <<"d", "e", "v", "e", "l", "o", "p", "m", "e", "n", "t">>
StrDev == <<"d", "e", "v">>
StrRc0 == <<"r", "c", ".", "0">>

(***************************************************************************)
(* package version: bump types and schemes.                                *)
(***************************************************************************)
BumpMinor == "minor"
BumpPatch == "patch"
BumpHotfix == "hotfix"

SchemeCalVer == "calver"
SchemeSemVer == "semver"

\* a (string, error) result of the versioners; err = "" is Go's nil error
Ret(v, e) == [ver |-> v, err |-> e]

(***************************************************************************)
(* CalVer.                                                                 *)
(***************************************************************************)
\* the clock c.now(): the date of day i
DateOf(i) == IF 30 + i <= 31 THEN [y |-> 2025, m |-> 12, d |-> 30 + i]
             ELSE [y |-> 2026, m |-> 1, d |-> i - 1]

\* fmt.Sprintf("%d.%02d.%02d", now.Year(), now.Month(), now.Day())
FormatForToday(i) == LET now == DateOf(i)
                     IN Itoa(now.y) \o <<".">> \o Pad2(now.m) \o <<".">> \o Pad2(now.d)

\* calverPattern.FindStringSubmatch: ^(\d{4})\.(\d{2})\.(\d{2})(?:-(\d+))?$
calverPattern(s) ==
    LET core == /\ Len(s) >= 10
                /\ AllDigits(SubSeq(s, 1, 4)) /\ s[5] = "."
                /\ AllDigits(SubSeq(s, 6, 7)) /\ s[8] = "."
                /\ AllDigits(SubSeq(s, 9, 10))
        suffix == \/ Len(s) = 10
                  \/ Len(s) >= 12 /\ s[11] = "-" /\ AllDigits(SubSeq(s, 12, Len(s)))
    IN IF core /\ suffix
       THEN [ok |-> TRUE, m1 |-> SubSeq(s, 1, 4), m2 |-> SubSeq(s, 6, 7),
             m3 |-> SubSeq(s, 9, 10),
             m4 |-> IF Len(s) > 10 THEN SubSeq(s, 12, Len(s)) ELSE <<>>]
       ELSE [ok |-> FALSE, m1 |-> <<>>, m2 |-> <<>>, m3 |-> <<>>, m4 |-> <<>>]

CalVerIsValid(version) == calverPattern(version).ok

\* An int has 64 bits, more than the integers of the checker: the hotfix
\* number is kept as its decimal string. The largest int:
StrMaxInt64 == <<"9", "2", "2", "3", "3", "7", "2", "0", "3", "6", "8", "5", "4",
                 "7", "7", "5", "8", "0", "7">>

\* a string of digits without its leading zeros
RECURSIVE StripZeros(_)
StripZeros(s) == IF Len(s) > 1 /\ s[1] = "0" THEN StripZeros(Tail(s)) ELSE s

\* strconv.Atoi of a string of digits: its value, or on overflow the largest
\* int together with an error, which nextHotfix drops
AtoiInt(s) ==
    LET n == StripZeros(s)
        m == StrMaxInt64
        above == \/ Len(n) > Len(m)
                 \/ /\ Len(n) = Len(m)
                    /\ \E i \in 1..Len(n) :
                         /\ DigitVal(n[i]) > DigitVal(m[i])
                         /\ \A j \in 1..(i - 1) : n[j] = m[j]
    IN IF above THEN m ELSE n

\* the decimal string of n + 1
RECURSIVE DecInc(_)
DecInc(n) ==
    IF n = <<>> THEN <<"1">>
    ELSE LET last == n[Len(n)]
             front == SubSeq(n, 1, Len(n) - 1)
         IN IF last = "9" THEN DecInc(front) \o <<"0">>
            ELSE front \o Itoa(DigitVal(last) + 1)

\* %d of hotfixNum+1: the largest int plus one wraps to the smallest
IntIncFormat(n) == IF n = StrMaxInt64 THEN <<"-">> \o DecInc(StrMaxInt64)
                   ELSE DecInc(n)

nextHotfix(current, today) ==
    LET matches == calverPattern(current)
        currentDate == matches.m1 \o <<".">> \o matches.m2 \o <<".">> \o matches.m3
        hotfixNum == IF matches.m4 # <<>> THEN AtoiInt(matches.m4) ELSE <<"0">>
    IN IF ~matches.ok THEN Ret(today \o <<"-", "1">>, "")
       ELSE IF currentDate = today
       THEN Ret(today \o <<"-">> \o IntIncFormat(hotfixNum), "")
       ELSE Ret(today \o <<"-", "1">>, "")

\* CalVer.Next keeping a current version that is already a valid CalVer
CalVerNextKeepsValid(current, bump, clock) ==
    LET today == FormatForToday(clock)
    IN CASE bump = BumpMinor ->
              IF calverPattern(current).ok THEN Ret(current, "") ELSE Ret(today, "")
         [] bump \in {BumpPatch, BumpHotfix} -> nextHotfix(current, today)
         [] OTHER -> Ret(<<>>, "unsupported bump type for CalVer")

CalVerNext(current, bump, day) ==
    LET today == FormatForToday(day)
    IN CASE bump = BumpMinor -> Ret(today, "")
         [] bump \in {BumpPatch, BumpHotfix} -> nextHotfix(current, today)
         [] OTHER -> Ret(<<>>, "unsupported bump type for CalVer")

CalVerSetPrerelease(version, prerelease) == version

CalVerRemovePrerelease(version) == version

(***************************************************************************)
(* SemVer, over github.com/Masterminds/semver/v3.                          *)
(***************************************************************************)
Letters == {"a", "b", "c", "d", "e", "f", "g", "h", "i", "j", "k", "l", "m",
            "n", "o", "p", "q", "r", "s", "t", "u", "v", "w", "x", "y", "z",
            "A", "B", "C", "D", "E", "F", "G", "H", "I", "J", "K", "L", "M",
            "N", "O", "P", "Q", "R", "S", "T", "U", "V", "W", "X", "Y", "Z"}

\* [0-9A-Za-z\-]
IsIdentChar(c) == IsDigit(c) \/ c = "-" \/ c \in Letters

\* [0-9A-Za-z\-]+(\.[0-9A-Za-z\-]+)*
IdentsOk(s) == \A p \in {Split(s, ".")[i] : i \in 1..Len(Split(s, "."))} :
                   p # <<>> /\ \A i \in 1..Len(p) : IsIdentChar(p[i])

\* semver.validatePrerelease: a numeric identifier has no leading zero
validatePrerelease(pre) ==
    \A p \in {Split(pre, ".")[i] : i \in 1..Len(Split(pre, "."))} :
        /\ p # <<>>
        /\ \A i \in 1..Len(p) : IsIdentChar(p[i])
        /\ (AllDigits(p) /\ Len(p) > 1) => p[1] # "0"

NoVersion == [ok |-> FALSE, major |-> 0, minor |-> 0, patch |-> 0,
              pre |-> <<>>, metadata |-> <<>>]

\* semver.NewVersion: v?N(.N)?(.N)?(-pre)?(+metadata)?, missing parts are 0
NewVersion(s) ==
    LET rest == TrimPrefix(s, StrV)
        plus == IndexOf(rest, "+")
        front == IF plus = 0 THEN rest ELSE SubSeq(rest, 1, plus - 1)
        metadata == IF plus = 0 THEN <<>> ELSE SubSeq(rest, plus + 1, Len(rest))
        dash == IndexOf(front, "-")
        core == IF dash = 0 THEN front ELSE SubSeq(front, 1, dash - 1)
        pre == IF dash = 0 THEN <<>> ELSE SubSeq(front, dash + 1, Len(front))
        nums == Split(core, ".")
        ok == /\ Len(nums) \in 1..3
              /\ \A i \in 1..Len(nums) : nums[i] # <<>> /\ AllDigits(nums[i])
              /\ dash # 0 => (IdentsOk(pre) /\ validatePrerelease(pre))
              /\ plus # 0 => IdentsOk(metadata)
    IN IF ok
       THEN [ok |-> TRUE, major |-> Atoi(nums[1]),
             minor |-> IF Len(nums) >= 2 THEN Atoi(nums[2]) ELSE 0,
             patch |-> IF Len(nums) >= 3 THEN Atoi(nums[3]) ELSE 0,
             pre |-> pre, metadata |-> metadata]
       ELSE NoVersion

\* Version.String
VersionString(v) ==
    Itoa(v.major) \o <<".">> \o Itoa(v.minor) \o <<".">> \o Itoa(v.patch)
        \o (IF v.pre # <<>> THEN <<"-">> \o v.pre ELSE <<>>)
        \o (IF v.metadata # <<>> THEN <<"+">> \o v.metadata ELSE <<>>)

\* Version.IncMinor
IncMinor(v) == [v EXCEPT !.minor = v.minor + 1, !.patch = 0, !.pre = <<>>,
                         !.metadata = <<>>]

\* Version.IncPatch: a prerelease version becomes its release, patch unchanged
IncPatch(v) == IF v.pre # <<>> THEN [v EXCEPT !.pre = <<>>, !.metadata = <<>>]
               ELSE [v EXCEPT !.patch = v.patch + 1, !.metadata = <<>>]

\* Version.SetPrerelease: fails on an invalid non-empty prerelease
VersionSetPrerelease(v, pre) ==
    IF pre # <<>> /\ ~validatePrerelease(pre) THEN NoVersion
    ELSE [v EXCEPT !.pre = pre]

SemVerIsValid(version) == NewVersion(version).ok

\* SemVer.Next starting a repository without a version at 1.0.0
SemVerNextFromOne(current, bump) ==
    LET v == NewVersion(current)
    IN IF current = <<>> /\ bump \in {BumpMinor, BumpPatch, BumpHotfix}
       THEN Ret(<<"1", ".", "0", ".", "0">>, "")
       ELSE IF ~v.ok THEN Ret(<<>>, "invalid current version")
       ELSE CASE bump = BumpMinor -> Ret(VersionString(IncMinor(v)), "")
              [] bump \in {BumpPatch, BumpHotfix} -> Ret(VersionString(IncPatch(v)), "")
              [] OTHER -> Ret(<<>>, "unsupported bump type")

\* SemVer.Next
SemVerNext(current, bump) ==
    LET v == NewVersion(current)
    IN IF current = <<>> /\ bump = BumpMinor THEN Ret(<<"0", ".", "1", ".", "0">>, "")
       ELSE IF current = <<>> /\ bump \in {BumpPatch, BumpHotfix}
       THEN Ret(<<"0", ".", "0", ".", "1">>, "")
       ELSE IF ~v.ok THEN Ret(<<>>, "invalid current version")
       ELSE CASE bump = BumpMinor -> Ret(VersionString(IncMinor(v)), "")
              [] bump \in {BumpPatch, BumpHotfix} -> Ret(VersionString(IncPatch(v)), "")
              [] OTHER -> Ret(<<>>, "unsupported bump type")

SemVerSetPrerelease(version, prerelease) ==
    LET v == NewVersion(version)
        newV == VersionSetPrerelease(v, prerelease)
    IN IF ~v.ok THEN version \o <<"-">> \o prerelease
       ELSE IF ~newV.ok THEN version \o <<"-">> \o prerelease
       ELSE VersionString(newV)

SemVerRemovePrerelease(version) ==
    LET v == NewVersion(version)
        idx == IndexOf(version, "-")
    IN IF ~v.ok
       THEN (IF idx # 0 THEN SubSeq(version, 1, idx - 1) ELSE version)
       ELSE VersionString(VersionSetPrerelease(v, <<>>))

\* SemVer.IncrementPrerelease. fmt.Sscanf(last, "%d", &num) reads an optional
\* sign and the digits that follow; when there are none it fails and num
\* stays 0. Its error is not looked at.
SemVerIncrementPrerelease(version) ==
    LET Last(pre) == LET parts == Split(pre, ".") IN parts[Len(parts)]
        Sscanf(last) ==
            LET neg == last # <<>> /\ last[1] = "-"
                body == IF neg THEN Tail(last) ELSE last
                n == IF \E i \in 1..Len(body) : ~IsDigit(body[i])
                     THEN CHOOSE i \in 1..Len(body) :
                             ~IsDigit(body[i]) /\ \A j \in 1..(i - 1) : IsDigit(body[j])
                     ELSE Len(body) + 1
            IN IF n = 1 THEN 0
               ELSE IF neg THEN 0 - Atoi(SubSeq(body, 1, n - 1))
               ELSE Atoi(SubSeq(body, 1, n - 1))
        Incremented(v, last) ==
            LET parts == Split(v.pre, ".")
                num == Sscanf(last)
                front == SubSeq(v.pre, 1, Len(v.pre) - Len(last))
                next == IF num + 1 < 0 THEN <<"-">> \o Itoa(0 - (num + 1))
                        ELSE Itoa(num + 1)
                newPre == IF Len(parts) < 2 THEN v.pre \o <<".", "1">>
                          ELSE front \o next
                newV == VersionSetPrerelease(v, newPre)
            IN IF ~v.ok THEN Ret(<<>>, "invalid version")
               ELSE IF v.pre = <<>> THEN Ret(<<>>, "no prerelease to increment")
               ELSE Ret(VersionString(IF newV.ok THEN newV ELSE v), "")
    IN CHOOSE r \in UNION {{Incremented(v, last) : last \in {Last(v.pre)}}
                              : v \in {NewVersion(version)}} : TRUE

(***************************************************************************)
(* The Versioner interface, dispatched on the scheme.                      *)
(***************************************************************************)
\* Current returning the tag as the accessor gave it
CurrentUntrimmed(tag) == IF tag.err # "" THEN Ret(<<>>, tag.err)
                         ELSE Ret(tag.ver, "")

\* CalVer.Current and SemVer.Current over the injected latestTagFn's result
Current(tag) == IF tag.err # "" THEN Ret(<<>>, tag.err)
                ELSE Ret(TrimPrefix(tag.ver, StrV), "")

VersionerNext(sch, current, bump, day) ==
    IF sch = SchemeCalVer THEN CalVerNext(current, bump, day)
    ELSE SemVerNext(current, bump)

VersionerSetPrerelease(sch, version, prerelease) ==
    IF sch = SchemeCalVer THEN CalVerSetPrerelease(version, prerelease)
    ELSE SemVerSetPrerelease(version, prerelease)

VersionerRemovePrerelease(sch, version) ==
    IF sch = SchemeCalVer THEN CalVerRemovePrerelease(version)
    ELSE SemVerRemovePrerelease(version)

(***************************************************************************)
(* State.                                                                  *)
(***************************************************************************)
VARIABLES
    branches,   \* git: the local branches
    head,       \* git: the checked-out branch
    dirty,      \* git: the working tree has uncommitted changes
    tags,       \* git: the annotated tags in creation order, [name, msg, on]
    reach,      \* git: branch -> names of the tags reachable from its tip
    pushed,     \* git: names of the tags on the remote
    day,        \* the clock
    scheme,     \* config: cfg.Scheme
    cfgMain,    \* config: cfg.Branches.Main ("" = auto-detect)
    cfgDev,     \* config: cfg.Branches.Develop ("" = auto-detect)
    inherited,  \* the number of tags the repository had before the first command
    pc,         \* the statement the running flow operation is at, or "idle"
    f,          \* the Flow of the command being run
    loc,        \* local variables of the running flow operation
    calls,      \* the Repository calls the command has issued so far
    pre,        \* the repository as it was when the command was invoked
    result,     \* the command, its flags and what it returned
    vcall       \* a call of a Versioner method: its arguments and what it returned

repoVars == <<branches, head, dirty, tags, reach, pushed>>
envVars == <<day, scheme, cfgMain, cfgDev, inherited, vcall>>
vars == <<branches, head, dirty, tags, reach, pushed, day, scheme, cfgMain, cfgDev,
          inherited, pc, f, loc, calls, pre, result, vcall>>

TagNames == {tags[i].name : i \in 1..Len(tags)}

Snapshot == [branches |-> branches, head |-> head, dirty |-> dirty, tags |-> tags,
             reach |-> reach, pushed |-> pushed]

NoSnapshot == [branches |-> {}, head |-> <<>>, dirty |-> FALSE, tags |-> <<>>,
               reach |-> <<>>, pushed |-> {}]

NoResult == [cmd |-> "", dryRun |-> FALSE, startNew |-> FALSE, err |-> ""]

\* no Versioner method is being called on its own
NoCall == [fn |-> "", current |-> <<>>, bump |-> "", arg |-> <<>>,
           ret |-> Ret(<<>>, ""), valid |-> FALSE]

NoLoc == [branch |-> <<>>, version |-> <<>>, finalVersion |-> <<>>,
          tagName |-> <<>>, mainBranch |-> <<>>, developBranch |-> <<>>,
          startNew |-> FALSE]

NoFlow == [dryRun |-> FALSE, mainBranch |-> <<>>, devBranch |-> <<>>]

(***************************************************************************)
(* package git: Executor.                                                  *)
(***************************************************************************)
\* what a call of Executor.Run can do: ran, the git command was executed;
\* ok, Run returned a nil error
Outcomes == [ran : BOOLEAN, ok : BOOLEAN]

\* Executor.Run without the dry-run return: the command always runs
RunIgnoringDryRun(dryRun, mustFail) ==
    {[ran |-> TRUE, ok |-> FALSE]}
        \cup (IF mustFail THEN {} ELSE {[ran |-> TRUE, ok |-> TRUE]})

\* Executor.Run: in dry-run the command is printed, not run, and Run returns
\* ("", nil); otherwise it runs and returns the error of a command that fails
Run(dryRun, mustFail) ==
    IF dryRun THEN {[ran |-> FALSE, ok |-> TRUE]}
    ELSE {[ran |-> TRUE, ok |-> FALSE]}
             \cup (IF mustFail THEN {} ELSE {[ran |-> TRUE, ok |-> TRUE]})

\* Executor.RunSilent: the possible values of err == nil; in dry-run
\* RunSilent returns ("", nil) without running the command.
RunSilent(dryRun, mustFail) == IF dryRun THEN {TRUE}
                               ELSE IF mustFail THEN {FALSE} ELSE BOOLEAN

\* Executor.RunSilent: the output of a command that ran without error
RunSilentOutput(dryRun, output) == IF dryRun THEN {} ELSE output

(***************************************************************************)
(* package git: Repository. A call is logged with the branch checked out   *)
(* when it was issued.                                                     *)
(***************************************************************************)
Call(kind, name, a, b, ok) ==
    [kind |-> kind, call |-> name, arg |-> a, arg2 |-> b, on |-> head, ok |-> ok]

Log(kind, name, a, b, ok) == calls' = Append(calls, Call(kind, name, a, b, ok))

\* a line of `git branch --list`
BranchLine(b) == IF b = head THEN <<"*", " ">> \o b ELSE <<" ", " ">> \o b

\* Repository.ListBranches: the branches `git branch --list prefix*` prints
ListBranches(dryRun, prefix) ==
    LET output == RunSilentOutput(dryRun,
                      {BranchLine(b) : b \in {x \in branches : HasPrefix(x, prefix)}})
        parsed == {TrimPrefix(TrimSpace(line), <<"*", " ">>) : line \in output}
    IN {b \in parsed : b # <<>>}

\* Repository.BranchExists: git show-ref --verify --quiet refs/heads/<name>
BranchExists(dryRun, name) == TRUE \in RunSilent(dryRun, name \notin branches)

\* Repository.GetMainBranch
GetMainBranch(dryRun) ==
    IF BranchExists(dryRun, StrMain) THEN Ret(StrMain, "")
    ELSE IF BranchExists(dryRun, StrMaster) THEN Ret(StrMaster, "")
    ELSE Ret(<<>>, "no main branch found (tried: main, master)")

\* Repository.GetDevelopBranch
GetDevelopBranch(dryRun) ==
    IF BranchExists(dryRun, StrDevelop) THEN Ret(StrDevelop, "")
    ELSE IF BranchExists(dryRun, StrDevelopment) THEN Ret(StrDevelopment, "")
    ELSE IF BranchExists(dryRun, StrDev) THEN Ret(StrDev, "")
    ELSE Ret(<<>>, "no develop branch found (tried: develop, development, dev)")

\* Repository.HasUncommittedChanges with the comparison inverted (output == "")
HasUncommittedChangesInverted(dryRun) ==
    RunSilentOutput(dryRun, IF dirty THEN {<<" ", "M", " ", "f">>} ELSE {}) = {}

\* Repository.HasUncommittedChanges: git status --porcelain prints something
HasUncommittedChanges(dryRun) ==
    RunSilentOutput(dryRun, IF dirty THEN {<<" ", "M", " ", "f">>} ELSE {}) # {}

\* git describe --tags --abbrev=0: the latest of the tags reachable from HEAD
Describe == LET r == {i \in 1..Len(tags) : tags[i].name \in reach[head]}
            IN IF r = {} THEN <<>>
               ELSE tags[CHOOSE i \in r : \A j \in r : j <= i].name

\* Repository.LatestTag; "No names found" is not an error
LatestTag(dryRun, ok) ==
    IF ~ok THEN Ret(<<>>, "git describe failed")
    ELSE IF dryRun THEN Ret(<<>>, "")
    ELSE Ret(Describe, "")

\* Repository.ListTags(""): only counted by its caller, so the set is kept
ListTags(dryRun) == RunSilentOutput(dryRun, TagNames)

\* Repository.VersionTagPrefix needing a strict majority for the v prefix
VersionTagPrefixStrict(listed) ==
    LET vCount == Cardinality({t \in listed :
                      HasPrefix(t, StrV) /\ Len(t) > 1 /\ IsDigit(t[2])})
        noVCount == Cardinality({t \in listed :
                      ~(HasPrefix(t, StrV) /\ Len(t) > 1) /\ Len(t) > 0 /\ IsDigit(t[1])})
    IN IF vCount > noVCount THEN StrV ELSE <<>>

\* Repository.VersionTagPrefix over the listed tags
VersionTagPrefix(listed) ==
    LET vCount == Cardinality({t \in listed :
                      HasPrefix(t, StrV) /\ Len(t) > 1 /\ IsDigit(t[2])})
        noVCount == Cardinality({t \in listed :
                      ~(HasPrefix(t, StrV) /\ Len(t) > 1) /\ Len(t) > 0 /\ IsDigit(t[1])})
    IN IF vCount >= noVCount THEN StrV ELSE <<>>

\* Repository.FormatTag
FormatTag(dryRun, ok, version) ==
    LET prefix == VersionTagPrefix(ListTags(dryRun))
    IN IF ~ok THEN Ret(<<>>, "failed to determine tag prefix")
       ELSE IF HasPrefix(version, StrV) /\ prefix = StrV THEN Ret(version, "")
       ELSE Ret(prefix \o version, "")

\* Repository.Checkout: git checkout <branch>
Checkout(branch, r) ==
    /\ r \in Run(f.dryRun, branch \notin branches)
    /\ Log("write", "Checkout", branch, <<>>, r.ok)
    /\ head' = IF r.ran /\ r.ok THEN branch ELSE head
    /\ UNCHANGED <<branches, dirty, tags, reach, pushed>>

\* CreateBranch that makes the branch and stays where it is, as git branch does
CreateBranchNoCheckout(name, base, r) ==
    /\ r \in Run(f.dryRun, name \in branches \/ base \notin branches)
    /\ Log("write", "CreateBranch", name, base, r.ok)
    /\ IF r.ran /\ r.ok
       THEN /\ branches' = branches \cup {name}
            /\ reach' = [b \in branches \cup {name} |->
                            IF b = name THEN reach[base] ELSE reach[b]]
       ELSE UNCHANGED <<branches, reach>>
    /\ UNCHANGED <<head, dirty, tags, pushed>>

\* Repository.CreateBranch: git checkout -b <name> <base>
CreateBranch(name, base, r) ==
    /\ r \in Run(f.dryRun, name \in branches \/ base \notin branches)
    /\ Log("write", "CreateBranch", name, base, r.ok)
    /\ IF r.ran /\ r.ok
       THEN /\ branches' = branches \cup {name}
            /\ head' = name
            /\ reach' = [b \in branches \cup {name} |->
                            IF b = name THEN reach[base] ELSE reach[b]]
       ELSE UNCHANGED <<branches, head, reach>>
    /\ UNCHANGED <<dirty, tags, pushed>>

\* Repository.DeleteBranch: git branch -d <name>
DeleteBranch(name, r) ==
    /\ r \in Run(f.dryRun, name \notin branches \/ name = head)
    /\ Log("write", "DeleteBranch", name, <<>>, r.ok)
    /\ IF r.ran /\ r.ok
       THEN /\ branches' = branches \ {name}
            /\ reach' = [b \in branches \ {name} |-> reach[b]]
       ELSE UNCHANGED <<branches, reach>>
    /\ UNCHANGED <<head, dirty, tags, pushed>>

StrNoFF == <<"-", "-", "n", "o", "-", "f", "f">>

\* Repository.Merge: git merge [--no-ff] <branch> into the checked-out branch;
\* a merge that fails may leave conflicts in the working tree
Merge(branch, noFF, r) ==
    /\ r \in Run(f.dryRun, branch \notin branches)
    /\ Log("write", "Merge", branch, IF noFF THEN StrNoFF ELSE <<>>, r.ok)
    /\ IF r.ran /\ r.ok
       THEN /\ reach' = [reach EXCEPT ![head] = reach[head] \cup reach[branch]]
            /\ dirty' = dirty
       ELSE /\ reach' = reach
            /\ dirty' \in (IF r.ok \/ branch \notin branches THEN {dirty}
                           ELSE {dirty, TRUE})
    /\ UNCHANGED <<branches, head, tags, pushed>>

\* CreateTag replacing a tag of the same name, as git tag -f would
CreateTagForce(name, message, r) ==
    /\ r \in Run(f.dryRun, FALSE)
    /\ Log("write", "CreateTag", name, message, r.ok)
    /\ IF r.ran /\ r.ok
       THEN /\ tags' = Append(SelectSeq(tags, LAMBDA t : t.name # name),
                              [name |-> name, msg |-> message, on |-> head])
            /\ reach' = [reach EXCEPT ![head] = reach[head] \cup {name}]
       ELSE UNCHANGED <<tags, reach>>
    /\ UNCHANGED <<branches, head, dirty, pushed>>

\* Repository.CreateTag: git tag -a <name> -m <message> on the checked-out commit
CreateTag(name, message, r) ==
    /\ r \in Run(f.dryRun, name \in TagNames)
    /\ Log("write", "CreateTag", name, message, r.ok)
    /\ IF r.ran /\ r.ok
       THEN /\ tags' = Append(tags, [name |-> name, msg |-> message, on |-> head])
            /\ reach' = [reach EXCEPT ![head] = reach[head] \cup {name}]
       ELSE UNCHANGED <<tags, reach>>
    /\ UNCHANGED <<branches, head, dirty, pushed>>

\* Repository.PushWithTags: git push --follow-tags <remote> <refs>
PushWithTags(remote, ref1, ref2, r) ==
    /\ r \in Run(f.dryRun, ref1 \notin branches \/ ref2 \notin branches)
    /\ Log("write", "PushWithTags", ref1, ref2, r.ok)
    /\ pushed' = IF r.ran /\ r.ok THEN pushed \cup reach[ref1] \cup reach[ref2]
                 ELSE pushed
    /\ UNCHANGED <<branches, head, dirty, tags, reach>>

(***************************************************************************)
(* package flow: Flow.                                                     *)
(***************************************************************************)
StrReleaseMsg == <<"R", "e", "l", "e", "a", "s", "e", " ">>
StrHotfixMsg == <<"H", "o", "t", "f", "i", "x", " ">>
StrOrigin == <<"o", "r", "i", "g", "i", "n">>

\* flow.New: the configured branch names, or auto-detection for an empty one
New(dryRun) ==
    LET m == IF cfgMain = <<>> THEN GetMainBranch(dryRun) ELSE Ret(cfgMain, "")
        d == IF cfgDev = <<>> THEN GetDevelopBranch(dryRun) ELSE Ret(cfgDev, "")
    IN IF m.err # "" THEN [err |-> m.err, flow |-> NoFlow]
       ELSE IF d.err # "" THEN [err |-> d.err, flow |-> NoFlow]
       ELSE [err |-> "", flow |-> [dryRun |-> dryRun, mainBranch |-> m.ver,
                                   devBranch |-> d.ver]]

\* runReleaseStart, runReleaseFinish, runHotfixStart, runHotfixFinish: build
\* the Flow and call the operation, or return flow.New's error
Command(cmd, first, dryRun, startNew) ==
    LET n == New(dryRun)
    IN /\ pc = "idle"
       /\ f' = n.flow
       /\ pre' = Snapshot
       /\ calls' = <<>>
       /\ loc' = [NoLoc EXCEPT !.startNew = startNew]
       /\ pc' = IF n.err # "" THEN "returned" ELSE first
       /\ result' = [cmd |-> cmd, dryRun |-> dryRun, startNew |-> startNew,
                     err |-> n.err]
       /\ UNCHANGED <<repoVars, envVars>>

\* return err (nil is "")
Return(e) ==
    /\ pc' = "returned"
    /\ result' = [result EXCEPT !.err = e]
    /\ loc' = NoLoc

\* the process exits: the Flow and what it held are gone
Exit ==
    /\ pc = "returned"
    /\ pc' = "idle"
    /\ f' = NoFlow
    /\ loc' = NoLoc
    /\ calls' = <<>>
    /\ pre' = NoSnapshot
    /\ result' = NoResult
    /\ UNCHANGED <<repoVars, envVars>>

Goto(label) == pc' = label /\ UNCHANGED <<result, loc>>

GotoWith(label, newLoc) == pc' = label /\ loc' = newLoc /\ UNCHANGED result

(***************************************************************************)
(* Flow.ReleaseStart.                                                      *)
(***************************************************************************)
CmdReleaseStart ==
    \E dryRun \in BOOLEAN : Command("ReleaseStart", "RS_list", dryRun, FALSE)

\* ReleaseStart step 1 listing the hotfix branches (the prefix of HotfixStart)
RS_ListWrongPrefix ==
    /\ pc = "RS_list"
    /\ \E ok \in RunSilent(f.dryRun, FALSE) :
         LET releases == ListBranches(f.dryRun, StrHotfixPrefix)
         IN /\ Log("read", "ListBranches", StrHotfixPrefix, <<>>, ok)
            /\ IF ~ok THEN Return("failed to list release branches")
               ELSE IF Cardinality(releases) > 0
               THEN Return("release already in progress")
               ELSE Goto("RS_checkout")
    /\ UNCHANGED <<repoVars, envVars, f, pre>>

\* ReleaseStart without its "release already in progress" return
RS_ListUnchecked ==
    /\ pc = "RS_list"
    /\ \E ok \in RunSilent(f.dryRun, FALSE) :
         /\ Log("read", "ListBranches", StrReleasePrefix, <<>>, ok)
         /\ IF ~ok THEN Return("failed to list release branches")
            ELSE Goto("RS_checkout")
    /\ UNCHANGED <<repoVars, envVars, f, pre>>

\* 1. Check no release already in progress
RS_List ==
    /\ pc = "RS_list"
    /\ \E ok \in RunSilent(f.dryRun, FALSE) :
         LET releases == ListBranches(f.dryRun, StrReleasePrefix)
         IN /\ Log("read", "ListBranches", StrReleasePrefix, <<>>, ok)
            /\ IF ~ok THEN Return("failed to list release branches")
               ELSE IF Cardinality(releases) > 0
               THEN Return("release already in progress")
               ELSE Goto("RS_checkout")
    /\ UNCHANGED <<repoVars, envVars, f, pre>>

\* ReleaseStart step 3 checking out the main branch
RS_CheckoutMainBranch ==
    /\ pc = "RS_checkout"
    /\ \E r \in Outcomes :
         /\ Checkout(f.mainBranch, r)
         /\ IF r.ok THEN Goto("RS_status") ELSE Return("failed to checkout")
    /\ UNCHANGED <<envVars, f, pre>>

\* 3. Checkout develop
RS_Checkout ==
    /\ pc = "RS_checkout"
    /\ \E r \in Outcomes :
         /\ Checkout(f.devBranch, r)
         /\ IF r.ok THEN Goto("RS_status") ELSE Return("failed to checkout")
    /\ UNCHANGED <<envVars, f, pre>>

\* 3. ... and ensure clean
RS_Status ==
    /\ pc = "RS_status"
    /\ \E ok \in RunSilent(f.dryRun, FALSE) :
         /\ Log("read", "HasUncommittedChanges", <<>>, <<>>, ok)
         /\ IF ~ok THEN Return("git status failed")
            ELSE IF HasUncommittedChanges(f.dryRun)
            THEN Return("uncommitted changes in working directory")
            ELSE Goto("RS_version")
    /\ UNCHANGED <<repoVars, envVars, f, pre>>

\* 4. Calculate next version
RS_Version ==
    /\ pc = "RS_version"
    /\ \E ok \in RunSilent(f.dryRun, FALSE) :
         LET current == Current(LatestTag(f.dryRun, ok))
             next == VersionerNext(scheme, current.ver, BumpMinor, day)
             nextVersion == IF scheme = SchemeSemVer
                            THEN VersionerSetPrerelease(scheme, next.ver, StrRc0)
                            ELSE next.ver
         IN /\ Log("read", "LatestTag", <<>>, <<>>, ok)
            /\ IF current.err # "" THEN Return("failed to get current version")
               ELSE IF next.err # "" THEN Return("failed to calculate next version")
               ELSE GotoWith("RS_create", [loc EXCEPT !.version = nextVersion])
    /\ UNCHANGED <<repoVars, envVars, f, pre>>

\* ReleaseStart step 5 starting the operation over when the branch cannot be
\* created
RS_CreateRetrying ==
    /\ pc = "RS_create"
    /\ \E r \in Outcomes :
         /\ CreateBranch(StrReleasePrefix \o loc.version, f.devBranch, r)
         /\ IF r.ok THEN Return("") ELSE GotoWith("RS_list", NoLoc)
    /\ UNCHANGED <<envVars, f, pre>>

\* 5. Create release branch
RS_Create ==
    /\ pc = "RS_create"
    /\ \E r \in Outcomes :
         /\ CreateBranch(StrReleasePrefix \o loc.version, f.devBranch, r)
         /\ IF r.ok THEN Return("") ELSE Return("failed to create release branch")
    /\ UNCHANGED <<envVars, f, pre>>

(***************************************************************************)
(* Flow.ReleaseFinish.                                                     *)
(***************************************************************************)
CmdReleaseFinish ==
    /\ Len(tags) < inherited + MaxTags
    /\ \E dryRun \in BOOLEAN, startNew \in BOOLEAN :
         Command("ReleaseFinish", "RF_list", dryRun, startNew)

\* 1. Find release branch
RF_List ==
    /\ pc = "RF_list"
    /\ \E ok \in RunSilent(f.dryRun, FALSE) :
         LET releases == ListBranches(f.dryRun, StrReleasePrefix)
             releaseBranch == CHOOSE b \in releases : TRUE
             releaseVersion == TrimPrefix(releaseBranch, StrReleasePrefix)
         IN /\ Log("read", "ListBranches", StrReleasePrefix, <<>>, ok)
            /\ IF ~ok THEN Return("failed to list release branches")
               ELSE IF Cardinality(releases) = 0 THEN Return("no release in progress")
               ELSE IF Cardinality(releases) > 1
               THEN Return("multiple releases in progress")
               ELSE GotoWith("RF_checkoutRelease",
                        [loc EXCEPT !.branch = releaseBranch,
                                    !.version = releaseVersion,
                                    !.finalVersion = VersionerRemovePrerelease(scheme, releaseVersion),
                                    !.mainBranch = f.mainBranch,
                                    !.developBranch = f.devBranch])
    /\ UNCHANGED <<repoVars, envVars, f, pre>>

\* 3. Checkout release branch
RF_CheckoutRelease ==
    /\ pc = "RF_checkoutRelease"
    /\ \E r \in Outcomes :
         /\ Checkout(loc.branch, r)
         /\ IF r.ok THEN Goto("RF_status")
            ELSE Return("failed to checkout release branch")
    /\ UNCHANGED <<envVars, f, pre>>

\* 3. ... and verify clean
RF_Status ==
    /\ pc = "RF_status"
    /\ \E ok \in RunSilent(f.dryRun, FALSE) :
         /\ Log("read", "HasUncommittedChanges", <<>>, <<>>, ok)
         /\ IF ~ok THEN Return("git status failed")
            ELSE IF HasUncommittedChanges(f.dryRun)
            THEN Return("uncommitted changes in release branch")
            ELSE Goto("RF_checkoutMain")
    /\ UNCHANGED <<repoVars, envVars, f, pre>>

\* ReleaseFinish step 4 checking out the develop branch instead of main
RF_CheckoutMainWrongBranch ==
    /\ pc = "RF_checkoutMain"
    /\ \E r \in Outcomes :
         /\ Checkout(loc.developBranch, r)
         /\ IF r.ok THEN Goto("RF_mergeMain") ELSE Return("git checkout failed")
    /\ UNCHANGED <<envVars, f, pre>>

\* 4. Merge to main: checkout
RF_CheckoutMain ==
    /\ pc = "RF_checkoutMain"
    /\ \E r \in Outcomes :
         /\ Checkout(loc.mainBranch, r)
         /\ IF r.ok THEN Goto("RF_mergeMain") ELSE Return("git checkout failed")
    /\ UNCHANGED <<envVars, f, pre>>

\* 4. Merge to main: merge
RF_MergeMain ==
    /\ pc = "RF_mergeMain"
    /\ \E r \in Outcomes :
         /\ Merge(loc.branch, TRUE, r)
         /\ IF r.ok THEN Goto("RF_formatTag") ELSE Return("failed to merge to main")
    /\ UNCHANGED <<envVars, f, pre>>

\* 5. Create tag: the name
RF_FormatTag ==
    /\ pc = "RF_formatTag"
    /\ \E ok \in RunSilent(f.dryRun, FALSE) :
         LET tagName == FormatTag(f.dryRun, ok, loc.finalVersion)
         IN /\ Log("read", "FormatTag", loc.finalVersion, <<>>, ok)
            /\ IF tagName.err # "" THEN Return(tagName.err)
               ELSE GotoWith("RF_createTag", [loc EXCEPT !.tagName = tagName.ver])
    /\ UNCHANGED <<repoVars, envVars, f, pre>>

\* ReleaseFinish step 5 with the branch's version, prerelease and all, in the
\* tag message
RF_CreateTagBranchVersion ==
    /\ pc = "RF_createTag"
    /\ \E r \in Outcomes :
         /\ CreateTag(loc.tagName, StrReleaseMsg \o loc.version, r)
         /\ IF r.ok THEN Goto("RF_checkoutDevelop") ELSE Return("failed to create tag")
    /\ UNCHANGED <<envVars, f, pre>>

\* 5. Create tag: the tag
RF_CreateTag ==
    /\ pc = "RF_createTag"
    /\ \E r \in Outcomes :
         /\ CreateTag(loc.tagName, StrReleaseMsg \o loc.finalVersion, r)
         /\ IF r.ok THEN Goto("RF_checkoutDevelop") ELSE Return("failed to create tag")
    /\ UNCHANGED <<envVars, f, pre>>

\* 6. Merge to develop: checkout
RF_CheckoutDevelop ==
    /\ pc = "RF_checkoutDevelop"
    /\ \E r \in Outcomes :
         /\ Checkout(loc.developBranch, r)
         /\ IF r.ok THEN Goto("RF_mergeDevelop") ELSE Return("git checkout failed")
    /\ UNCHANGED <<envVars, f, pre>>

\* ReleaseFinish step 6 with the error of the merge dropped
RF_MergeDevelopUnchecked ==
    /\ pc = "RF_mergeDevelop"
    /\ \E r \in Outcomes :
         /\ Merge(loc.mainBranch, TRUE, r)
         /\ Goto("RF_push")
    /\ UNCHANGED <<envVars, f, pre>>

\* 6. Merge to develop: merge
RF_MergeDevelop ==
    /\ pc = "RF_mergeDevelop"
    /\ \E r \in Outcomes :
         /\ Merge(loc.mainBranch, TRUE, r)
         /\ IF r.ok THEN Goto("RF_push") ELSE Return("failed to merge to develop")
    /\ UNCHANGED <<envVars, f, pre>>

\* 7. Push everything
RF_Push ==
    /\ pc = "RF_push"
    /\ \E r \in Outcomes :
         /\ PushWithTags(StrOrigin, loc.mainBranch, loc.developBranch, r)
         /\ IF r.ok THEN Goto("RF_delete") ELSE Return("failed to push")
    /\ UNCHANGED <<envVars, f, pre>>

\* ReleaseFinish step 8 deleting the main branch instead of the release branch
RF_DeleteWrongBranch ==
    /\ pc = "RF_delete"
    /\ \E r \in Outcomes :
         /\ DeleteBranch(loc.mainBranch, r)
         /\ IF loc.startNew THEN GotoWith("RS_list", NoLoc)
            ELSE Return("")
    /\ UNCHANGED <<envVars, f, pre>>

\* ReleaseFinish step 9 without its test of startNew
RF_DeleteAlwaysChains ==
    /\ pc = "RF_delete"
    /\ \E r \in Outcomes :
         /\ DeleteBranch(loc.branch, r)
         /\ GotoWith("RS_list", NoLoc)
    /\ UNCHANGED <<envVars, f, pre>>

\* 8. Delete release branch (a failure is only a warning), and
\* 9. Optionally start new release
RF_Delete ==
    /\ pc = "RF_delete"
    /\ \E r \in Outcomes :
         /\ DeleteBranch(loc.branch, r)
         /\ IF loc.startNew THEN GotoWith("RS_list", NoLoc)
            ELSE Return("")
    /\ UNCHANGED <<envVars, f, pre>>

(***************************************************************************)
(* Flow.HotfixStart.                                                       *)
(***************************************************************************)
CmdHotfixStart ==
    \E dryRun \in BOOLEAN : Command("HotfixStart", "HS_list", dryRun, FALSE)

\* 1. Check no hotfix already in progress
HS_List ==
    /\ pc = "HS_list"
    /\ \E ok \in RunSilent(f.dryRun, FALSE) :
         LET hotfixes == ListBranches(f.dryRun, StrHotfixPrefix)
         IN /\ Log("read", "ListBranches", StrHotfixPrefix, <<>>, ok)
            /\ IF ~ok THEN Return("failed to list hotfix branches")
               ELSE IF Cardinality(hotfixes) > 0
               THEN Return("hotfix already in progress")
               ELSE Goto("HS_getMain")
    /\ UNCHANGED <<repoVars, envVars, f, pre>>

\* 2. Get main branch
HS_GetMain ==
    /\ pc = "HS_getMain"
    /\ LET mainBranch == GetMainBranch(f.dryRun)
       IN /\ Log("read", "GetMainBranch", <<>>, <<>>, mainBranch.err = "")
          /\ IF mainBranch.err # "" THEN Return(mainBranch.err)
             ELSE GotoWith("HS_checkout", [loc EXCEPT !.mainBranch = mainBranch.ver])
    /\ UNCHANGED <<repoVars, envVars, f, pre>>

\* 3. Checkout main
HS_Checkout ==
    /\ pc = "HS_checkout"
    /\ \E r \in Outcomes :
         /\ Checkout(loc.mainBranch, r)
         /\ IF r.ok THEN Goto("HS_status") ELSE Return("failed to checkout")
    /\ UNCHANGED <<envVars, f, pre>>

\* 3. ... and ensure clean
HS_Status ==
    /\ pc = "HS_status"
    /\ \E ok \in RunSilent(f.dryRun, FALSE) :
         /\ Log("read", "HasUncommittedChanges", <<>>, <<>>, ok)
         /\ IF ~ok THEN Return("git status failed")
            ELSE IF HasUncommittedChanges(f.dryRun)
            THEN Return("uncommitted changes in working directory")
            ELSE Goto("HS_version")
    /\ UNCHANGED <<repoVars, envVars, f, pre>>

\* 4. Calculate next hotfix version
\* HotfixStart step 4 with the bump of ReleaseStart
HS_VersionMinorBump ==
    /\ pc = "HS_version"
    /\ \E ok \in RunSilent(f.dryRun, FALSE) :
         LET current == Current(LatestTag(f.dryRun, ok))
             nextVersion == VersionerNext(scheme, current.ver, BumpMinor, day)
         IN /\ Log("read", "LatestTag", <<>>, <<>>, ok)
            /\ IF current.err # "" THEN Return("failed to get current version")
               ELSE IF nextVersion.err # ""
               THEN Return("failed to calculate next version")
               ELSE GotoWith("HS_create", [loc EXCEPT !.version = nextVersion.ver])
    /\ UNCHANGED <<repoVars, envVars, f, pre>>

HS_Version ==
    /\ pc = "HS_version"
    /\ \E ok \in RunSilent(f.dryRun, FALSE) :
         LET current == Current(LatestTag(f.dryRun, ok))
             nextVersion == VersionerNext(scheme, current.ver, BumpHotfix, day)
         IN /\ Log("read", "LatestTag", <<>>, <<>>, ok)
            /\ IF current.err # "" THEN Return("failed to get current version")
               ELSE IF nextVersion.err # ""
               THEN Return("failed to calculate next version")
               ELSE GotoWith("HS_create", [loc EXCEPT !.version = nextVersion.ver])
    /\ UNCHANGED <<repoVars, envVars, f, pre>>

\* 5. Create hotfix branch
HS_Create ==
    /\ pc = "HS_create"
    /\ \E r \in Outcomes :
         /\ CreateBranch(StrHotfixPrefix \o loc.version, loc.mainBranch, r)
         /\ IF r.ok THEN Return("") ELSE Return("failed to create hotfix branch")
    /\ UNCHANGED <<envVars, f, pre>>

(***************************************************************************)
(* Flow.HotfixFinish.                                                      *)
(***************************************************************************)
CmdHotfixFinish ==
    /\ Len(tags) < inherited + MaxTags
    /\ \E dryRun \in BOOLEAN : Command("HotfixFinish", "HF_list", dryRun, FALSE)

\* 1. Find hotfix branch
HF_List ==
    /\ pc = "HF_list"
    /\ \E ok \in RunSilent(f.dryRun, FALSE) :
         LET hotfixes == ListBranches(f.dryRun, StrHotfixPrefix)
             hotfixBranch == CHOOSE b \in hotfixes : TRUE
         IN /\ Log("read", "ListBranches", StrHotfixPrefix, <<>>, ok)
            /\ IF ~ok THEN Return("failed to list hotfix branches")
               ELSE IF Cardinality(hotfixes) = 0 THEN Return("no hotfix in progress")
               ELSE IF Cardinality(hotfixes) > 1
               THEN Return("multiple hotfixes in progress")
               ELSE GotoWith("HF_getBranches",
                        [loc EXCEPT !.branch = hotfixBranch,
                                    !.version = TrimPrefix(hotfixBranch, StrHotfixPrefix)])
    /\ UNCHANGED <<repoVars, envVars, f, pre>>

\* 2. Get main and develop branches
HF_GetBranches ==
    /\ pc = "HF_getBranches"
    /\ LET mainBranch == GetMainBranch(f.dryRun)
           developBranch == GetDevelopBranch(f.dryRun)
       IN IF mainBranch.err # ""
          THEN /\ Log("read", "GetMainBranch", <<>>, <<>>, FALSE)
               /\ Return(mainBranch.err)
          ELSE /\ calls' = calls \o
                     <<Call("read", "GetMainBranch", <<>>, <<>>, TRUE),
                       Call("read", "GetDevelopBranch", <<>>, <<>>,
                            developBranch.err = "")>>
               /\ IF developBranch.err # "" THEN Return(developBranch.err)
                  ELSE GotoWith("HF_checkoutHotfix",
                           [loc EXCEPT !.mainBranch = mainBranch.ver,
                                       !.developBranch = developBranch.ver])
    /\ UNCHANGED <<repoVars, envVars, f, pre>>

\* 3. Checkout hotfix branch
HF_CheckoutHotfix ==
    /\ pc = "HF_checkoutHotfix"
    /\ \E r \in Outcomes :
         /\ Checkout(loc.branch, r)
         /\ IF r.ok THEN Goto("HF_status")
            ELSE Return("failed to checkout hotfix branch")
    /\ UNCHANGED <<envVars, f, pre>>

\* 3. ... and verify clean
HF_Status ==
    /\ pc = "HF_status"
    /\ \E ok \in RunSilent(f.dryRun, FALSE) :
         /\ Log("read", "HasUncommittedChanges", <<>>, <<>>, ok)
         /\ IF ~ok THEN Return("git status failed")
            ELSE IF HasUncommittedChanges(f.dryRun)
            THEN Return("uncommitted changes in hotfix branch")
            ELSE Goto("HF_checkoutMain")
    /\ UNCHANGED <<repoVars, envVars, f, pre>>

\* 4. Merge to main: checkout
HF_CheckoutMain ==
    /\ pc = "HF_checkoutMain"
    /\ \E r \in Outcomes :
         /\ Checkout(loc.mainBranch, r)
         /\ IF r.ok THEN Goto("HF_mergeMain") ELSE Return("git checkout failed")
    /\ UNCHANGED <<envVars, f, pre>>

\* 4. Merge to main: merge
HF_MergeMain ==
    /\ pc = "HF_mergeMain"
    /\ \E r \in Outcomes :
         /\ Merge(loc.branch, TRUE, r)
         /\ IF r.ok THEN Goto("HF_formatTag") ELSE Return("failed to merge to main")
    /\ UNCHANGED <<envVars, f, pre>>

\* 5. Create tag: the name
HF_FormatTag ==
    /\ pc = "HF_formatTag"
    /\ \E ok \in RunSilent(f.dryRun, FALSE) :
         LET tagName == FormatTag(f.dryRun, ok, loc.version)
         IN /\ Log("read", "FormatTag", loc.version, <<>>, ok)
            /\ IF tagName.err # "" THEN Return(tagName.err)
               ELSE GotoWith("HF_createTag", [loc EXCEPT !.tagName = tagName.ver])
    /\ UNCHANGED <<repoVars, envVars, f, pre>>

\* 5. Create tag: the tag
HF_CreateTag ==
    /\ pc = "HF_createTag"
    /\ \E r \in Outcomes :
         /\ CreateTag(loc.tagName, StrHotfixMsg \o loc.version, r)
         /\ IF r.ok THEN Goto("HF_checkoutDevelop") ELSE Return("failed to create tag")
    /\ UNCHANGED <<envVars, f, pre>>

\* 6. Merge to develop: checkout
HF_CheckoutDevelop ==
    /\ pc = "HF_checkoutDevelop"
    /\ \E r \in Outcomes :
         /\ Checkout(loc.developBranch, r)
         /\ IF r.ok THEN Goto("HF_mergeDevelop") ELSE Return("git checkout failed")
    /\ UNCHANGED <<envVars, f, pre>>

\* 6. Merge to develop: merge
HF_MergeDevelop ==
    /\ pc = "HF_mergeDevelop"
    /\ \E r \in Outcomes :
         /\ Merge(loc.mainBranch, TRUE, r)
         /\ IF r.ok THEN Goto("HF_push") ELSE Return("failed to merge to develop")
    /\ UNCHANGED <<envVars, f, pre>>

\* 7. Push everything
HF_Push ==
    /\ pc = "HF_push"
    /\ \E r \in Outcomes :
         /\ PushWithTags(StrOrigin, loc.mainBranch, loc.developBranch, r)
         /\ IF r.ok THEN Goto("HF_delete") ELSE Return("failed to push")
    /\ UNCHANGED <<envVars, f, pre>>

\* 8. Delete hotfix branch (a failure is only a warning)
HF_Delete ==
    /\ pc = "HF_delete"
    /\ \E r \in Outcomes :
         /\ DeleteBranch(loc.branch, r)
         /\ Return("")
    /\ UNCHANGED <<envVars, f, pre>>

(***************************************************************************)
(* The caller between two commands: work in the tree, and time passing.    *)
(***************************************************************************)
\* the user edits a file
Edit ==
    /\ pc = "idle" /\ ~dirty
    /\ dirty' = TRUE
    /\ UNCHANGED <<branches, head, tags, reach, pushed, envVars, pc, f, loc, calls,
                   pre, result>>

\* the user commits or discards the changes
CleanTree ==
    /\ pc = "idle" /\ dirty
    /\ dirty' = FALSE
    /\ UNCHANGED <<branches, head, tags, reach, pushed, envVars, pc, f, loc, calls,
                   pre, result>>

\* midnight on CalVer's clock (SemVer has none)
Tick ==
    /\ pc = "idle" /\ day < MaxDay /\ scheme = SchemeCalVer
    /\ day' = day + 1
    /\ UNCHANGED <<repoVars, scheme, cfgMain, cfgDev, inherited, pc, f, loc, calls,
                   pre, result, vcall>>

(***************************************************************************)
(* The repositories and configurations a command may find.                 *)
(***************************************************************************)
StrRelA == StrReleasePrefix \o <<"9", ".", "0", ".", "0", "-", "r", "c", ".", "0">>
StrRelB == StrReleasePrefix \o <<"9", ".", "1", ".", "0", "-", "r", "c", ".", "0">>
StrHotA == StrHotfixPrefix \o <<"9", ".", "0", ".", "1">>
StrHotB == StrHotfixPrefix \o <<"9", ".", "0", ".", "2">>
StrTagBare == <<"1", ".", "2", ".", "3">>
StrTagToday == StrV \o FormatForToday(1)
StrTagNightly == <<"n", "i", "g", "h", "t", "l", "y">>

\* The repositories a command may find. base: the long-lived branches;
\* main, dev: the configured names (empty = auto-detect); extra: branches left
\* by earlier work; names: the tags of earlier releases. The last one is a
\* repository that has main and develop beside the configured master and dev,
\* and whose latest tag is not a version.
Repositories ==
    {[base |-> {StrMain, StrDevelop}, main |-> StrMain, dev |-> StrDevelop,
      extra |-> {}, names |-> <<>>],
     [base |-> {StrMain, StrDevelop}, main |-> StrMain, dev |-> StrDevelop,
      extra |-> {}, names |-> <<StrTagToday>>],
     [base |-> {StrMaster, StrDev}, main |-> <<>>, dev |-> <<>>,
      extra |-> {}, names |-> <<StrTagBare>>],
     [base |-> {StrMain, StrDevelop}, main |-> StrMain, dev |-> StrDevelop,
      extra |-> {StrRelA, StrRelB, StrHotA, StrHotB}, names |-> <<>>],
     [base |-> {StrMain, StrMaster, StrDevelop, StrDev}, main |-> StrMaster,
      dev |-> StrDev, extra |-> {}, names |-> <<StrTagNightly>>]}

Init ==
    /\ \E s \in Repositories :
         /\ branches = s.base \cup s.extra
         /\ head = IF s.dev # <<>> THEN s.dev
                   ELSE CHOOSE b \in s.base : b \in {StrDevelop, StrDev}
         /\ tags = [i \in 1..Len(s.names) |->
                       [name |-> s.names[i], msg |-> StrReleaseMsg \o s.names[i],
                        on |-> IF s.main # <<>> THEN s.main
                               ELSE CHOOSE b \in s.base : b \in {StrMain, StrMaster}]]
         /\ reach = [b \in s.base \cup s.extra |->
                        {s.names[i] : i \in 1..Len(s.names)}]
         /\ pushed = {s.names[i] : i \in 1..Len(s.names)}
         /\ cfgMain = s.main
         /\ cfgDev = s.dev
         /\ inherited = Len(s.names)
    /\ dirty = FALSE
    /\ day = 1
    /\ scheme \in {SchemeCalVer, SchemeSemVer}
    /\ pc = "idle"
    /\ f = NoFlow
    /\ loc = NoLoc
    /\ calls = <<>>
    /\ pre = NoSnapshot
    /\ result = NoResult
    /\ vcall = NoCall

Next ==
    \/ CmdReleaseStart \/ RS_List \/ RS_Checkout \/ RS_Status \/ RS_Version \/ RS_Create
    \/ CmdReleaseFinish \/ RF_List \/ RF_CheckoutRelease \/ RF_Status
    \/ RF_CheckoutMain \/ RF_MergeMain \/ RF_FormatTag \/ RF_CreateTag
    \/ RF_CheckoutDevelop \/ RF_MergeDevelop \/ RF_Push \/ RF_Delete
    \/ CmdHotfixStart \/ HS_List \/ HS_GetMain \/ HS_Checkout \/ HS_Status
    \/ HS_Version \/ HS_Create
    \/ CmdHotfixFinish \/ HF_List \/ HF_GetBranches \/ HF_CheckoutHotfix \/ HF_Status
    \/ HF_CheckoutMain \/ HF_MergeMain \/ HF_FormatTag \/ HF_CreateTag
    \/ HF_CheckoutDevelop \/ HF_MergeDevelop \/ HF_Push \/ HF_Delete
    \/ Exit \/ Edit \/ CleanTree \/ Tick

Spec == Init /\ [][Next]_vars

(***************************************************************************)
(* A command that was invoked runs to its return: the process executes its *)
(* next statement, and every git command it waits for comes back (with     *)
(* success or failure). Nothing makes the user invoke a command, edit      *)
(* files or let the process exit. StepTaken is a step of the running       *)
(* command, whichever statement it executes: every statement moves on to   *)
(* another one or returns.                                                 *)
(***************************************************************************)
Statements ==
    {"RS_list", "RS_checkout", "RS_status", "RS_version", "RS_create",
     "RF_list", "RF_checkoutRelease", "RF_status", "RF_checkoutMain",
     "RF_mergeMain", "RF_formatTag", "RF_createTag", "RF_checkoutDevelop",
     "RF_mergeDevelop", "RF_push", "RF_delete",
     "HS_list", "HS_getMain", "HS_checkout", "HS_status", "HS_version",
     "HS_create",
     "HF_list", "HF_getBranches", "HF_checkoutHotfix", "HF_status",
     "HF_checkoutMain", "HF_mergeMain", "HF_formatTag", "HF_createTag",
     "HF_checkoutDevelop", "HF_mergeDevelop", "HF_push", "HF_delete"}

StepTaken ==
    /\ pc \in Statements
    /\ pc' \in (Statements \cup {"returned"}) \ {pc}

\* the commands over a repository that has its two long-lived branches and no
\* release yet
InitFresh == Init /\ branches = {StrMain, StrDevelop} /\ tags = <<>>

FairSpec == InitFresh /\ [][Next]_vars /\ WF_pc(StepTaken)

(***************************************************************************)
(* The same commands over the repository a finish leaves behind when it    *)
(* fails after CreateTag: the first release or hotfix of a repository with *)
(* main and develop was merged into main and tagged there, and then either *)
(* the merge of main into develop failed (with or without conflicts left   *)
(* in the working tree) or the push was rejected. develop is checked out,  *)
(* the branch is still there, nothing is pushed.                           *)
(***************************************************************************)
InitRerun ==
    /\ scheme \in {SchemeCalVer, SchemeSemVer}
    /\ \E prefix \in {StrReleasePrefix, StrHotfixPrefix}, failedAt \in {"merge", "push"} :
       \E next \in {VersionerNext(scheme, <<>>,
                        IF prefix = StrReleasePrefix THEN BumpMinor ELSE BumpHotfix, 1)} :
       \E version \in {IF prefix = StrReleasePrefix /\ scheme = SchemeSemVer
                       THEN VersionerSetPrerelease(scheme, next.ver, StrRc0)
                       ELSE next.ver} :
       \E finalVersion \in {IF prefix = StrReleasePrefix
                            THEN VersionerRemovePrerelease(scheme, version)
                            ELSE version} :
       \E tagName \in {VersionTagPrefix({}) \o finalVersion} :
         /\ next.err = ""
         /\ branches = {StrMain, StrDevelop, prefix \o version}
         /\ tags = <<[name |-> tagName,
                      msg |-> (IF prefix = StrReleasePrefix THEN StrReleaseMsg
                               ELSE StrHotfixMsg) \o finalVersion,
                      on |-> StrMain]>>
         /\ reach = [b \in {StrMain, StrDevelop, prefix \o version} |->
                        IF b = StrMain \/ (b = StrDevelop /\ failedAt = "push")
                        THEN {tagName} ELSE {}]
         /\ dirty \in (IF failedAt = "merge" THEN BOOLEAN ELSE {FALSE})
    /\ head = StrDevelop
    /\ pushed = {}
    /\ cfgMain = StrMain
    /\ cfgDev = StrDevelop
    /\ inherited = 1
    /\ day = 1
    /\ pc = "idle"
    /\ f = NoFlow
    /\ loc = NoLoc
    /\ calls = <<>>
    /\ pre = NoSnapshot
    /\ result = NoResult
    /\ vcall = NoCall

RerunSpec == InitRerun /\ [][Next]_vars

(***************************************************************************)
(* The Versioner methods called on their own, the way the tests of package *)
(* version call them: with any current version, any bump and an injected   *)
(* clock, and no repository.                                               *)
(***************************************************************************)
MaxHotfixNum == 2
MaxPart == 1

Bumps == {BumpMinor, BumpPatch, BumpHotfix, "invalid", ""}

\* The current versions tried. CalVer: the dates the clock shows and one it
\* never shows, bare and with a hotfix number (small ones, one with leading
\* zeros, one that carries, those around the largest int) or with something
\* that is no number. SemVer: versions with and without prerelease and build
\* metadata, two- and four-part ones, and prereleases of one and of two
\* identifiers, numeric or not. And the empty and an invalid string.
Currents ==
    LET dates == {FormatForToday(d) : d \in 1..MaxDay}
                    \cup {<<"2", "0", "2", "5", ".", "1", "2", ".", "2", "5">>}
        nums == {Itoa(n) : n \in 0..MaxHotfixNum}
                    \cup {<<"0", "0", "7">>, <<"9">>,
                          SubSeq(StrMaxInt64, 1, 18) \o <<"6">>, StrMaxInt64,
                          StrMaxInt64 \o <<"0">>}
        calvers == dates \cup {d \o <<"-">> \o n : d \in dates, n \in nums}
                         \cup {d \o <<"-">> : d \in dates}
                         \cup {d \o <<"-", "r", "c">> : d \in dates}
                         \cup {StrV \o d : d \in dates}
        semvers == {VersionString([ok |-> TRUE, major |-> a, minor |-> b,
                                   patch |-> c, pre |-> p, metadata |-> m]) :
                        a \in 0..MaxPart, b \in 0..MaxPart, c \in 0..MaxPart,
                        p \in {<<>>, StrRc0}, m \in {<<>>, <<"b", "1">>}}
                     \cup {<<"1", ".", "2">>, <<"v", "1", ".", "2", ".", "3">>,
                           <<"1", ".", "2", ".", "3", ".", "4">>,
                           <<"1", ".", "2", ".", "x">>}
                     \cup {<<"1", ".", "0", ".", "0", "-">> \o p :
                              p \in {<<"b", "e", "t", "a">>, <<"5">>,
                                     <<"r", "c", ".", "9">>,
                                     <<"a", "l", "p", "h", "a", ".", "b", "e", "t", "a">>,
                                     <<"r", "c", ".", "2", "b">>}}
    IN calvers \cup semvers \cup {<<>>, <<"i", "n", "v", "a", "l", "i", "d">>}

\* The tag lists FormatTag is tried on: none, one convention only, a tie, a
\* majority either way, and tags that are no versions
TagLists ==
    LET v1 == <<"v", "1", ".", "0", ".", "0">>
        v2 == <<"v", "2", ".", "0", ".", "0">>
        b1 == StrTagBare
        b2 == <<"2", ".", "0", ".", "0">>
    IN {<<>>, <<v1>>, <<b1>>, <<v1, b1>>, <<b1, b2, v1>>, <<v1, v2, b1>>,
        <<StrTagNightly, b1>>, <<StrV, v1, b1, b2>>,
        <<<<"v", "n", "e", "x", "t">>, b1>>}

InitVersion ==
    /\ \/ /\ tags = <<>>
          /\ vcall \in [fn : {""}, current : Currents, bump : Bumps, arg : {<<>>},
                         ret : {Ret(<<>>, "")}, valid : {FALSE}]
       \/ /\ \E names \in TagLists \ {<<>>} :
                tags = [i \in 1..Len(names) |->
                           [name |-> names[i], msg |-> StrReleaseMsg \o names[i],
                            on |-> StrMain]]
          /\ vcall \in [fn : {""},
                         current : {StrTagBare, StrV \o StrTagBare,
                                    FormatForToday(1), <<>>},
                         bump : {BumpMinor}, arg : {<<>>},
                         ret : {Ret(<<>>, "")}, valid : {FALSE}]
    /\ day \in 1..MaxDay
    /\ scheme \in {SchemeCalVer, SchemeSemVer}
    /\ branches = {} /\ head = <<>> /\ dirty = FALSE
    /\ reach = <<>> /\ pushed = {}
    /\ cfgMain = <<>> /\ cfgDev = <<>> /\ inherited = 0
    /\ pc = "idle" /\ f = NoFlow /\ loc = NoLoc /\ calls = <<>>
    /\ pre = NoSnapshot /\ result = NoResult

\* cv.Next(current, bump) with the clock at day
CalVer_Next ==
    /\ vcall.fn = "" /\ scheme = SchemeCalVer
    /\ vcall' = [vcall EXCEPT !.fn = "Next",
                              !.ret = CalVerNext(vcall.current, vcall.bump, day)]
    /\ UNCHANGED <<repoVars, day, scheme, cfgMain, cfgDev, inherited, pc, f, loc,
                   calls, pre, result>>

\* sv.Next(current, bump)
SemVer_Next ==
    /\ vcall.fn = "" /\ scheme = SchemeSemVer
    /\ vcall' = [vcall EXCEPT !.fn = "Next",
                              !.ret = SemVerNext(vcall.current, vcall.bump)]
    /\ UNCHANGED <<repoVars, day, scheme, cfgMain, cfgDev, inherited, pc, f, loc,
                   calls, pre, result>>

\* The prerelease labels tried: valid ones, the empty one, and ones
\* validatePrerelease rejects (a character outside [0-9A-Za-z-], a numeric
\* identifier with a leading zero)
Labels == {StrRc0, <<"b", "e", "t", "a">>, <<>>, <<"a", "_", "b">>,
           <<"r", "c", "+", "x">>, <<"0", "1">>}

\* SetPrerelease(version, prerelease) of the scheme's Versioner
Versioner_SetPrerelease ==
    /\ vcall.fn = ""
    /\ \E label \in Labels :
         vcall' = [vcall EXCEPT !.fn = "SetPrerelease", !.arg = label,
                     !.ret = Ret(VersionerSetPrerelease(scheme, vcall.current, label), "")]
    /\ UNCHANGED <<repoVars, day, scheme, cfgMain, cfgDev, inherited, pc, f, loc,
                   calls, pre, result>>

\* RemovePrerelease(version) of the scheme's Versioner, of the version given
\* or of the one SetPrerelease has just returned
Versioner_RemovePrerelease ==
    /\ vcall.fn \in {"", "SetPrerelease"}
    /\ vcall' = IF vcall.fn = ""
                THEN [vcall EXCEPT !.fn = "RemovePrerelease",
                        !.ret = Ret(VersionerRemovePrerelease(scheme, vcall.current), "")]
                ELSE [vcall EXCEPT !.fn = "RemovePrerelease(SetPrerelease)",
                        !.ret = Ret(VersionerRemovePrerelease(scheme, vcall.ret.ver), "")]
    /\ UNCHANGED <<repoVars, day, scheme, cfgMain, cfgDev, inherited, pc, f, loc,
                   calls, pre, result>>

\* IsValid(version) of the scheme's Versioner
Versioner_IsValid ==
    /\ vcall.fn = ""
    /\ vcall' = [vcall EXCEPT !.fn = "IsValid",
                   !.valid = IF scheme = SchemeCalVer
                             THEN CalVerIsValid(vcall.current)
                             ELSE SemVerIsValid(vcall.current)]
    /\ UNCHANGED <<repoVars, day, scheme, cfgMain, cfgDev, inherited, pc, f, loc,
                   calls, pre, result>>

\* repo.FormatTag(version) over the tags listed. In dry-run a finish returns
\* at its branch listing, before it gets to FormatTag.
Repository_FormatTag ==
    /\ vcall.fn = ""
    /\ \E ok \in RunSilent(FALSE, FALSE) :
         vcall' = [vcall EXCEPT !.fn = "FormatTag",
                                !.ret = FormatTag(FALSE, ok, vcall.current)]
    /\ UNCHANGED <<repoVars, day, scheme, cfgMain, cfgDev, inherited, pc, f, loc,
                   calls, pre, result>>

\* sv.IncrementPrerelease(version)
SemVer_IncrementPrerelease ==
    /\ vcall.fn = "" /\ scheme = SchemeSemVer
    /\ vcall' = [vcall EXCEPT !.fn = "IncrementPrerelease",
                              !.ret = SemVerIncrementPrerelease(vcall.current)]
    /\ UNCHANGED <<repoVars, day, scheme, cfgMain, cfgDev, inherited, pc, f, loc,
                   calls, pre, result>>

\* Current() of either Versioner, whose injected latestTagFn returns the tag
\* and the error e (nil is ""); e is kept in arg
Versioner_Current ==
    /\ vcall.fn = ""
    /\ \E e \in {"", "git describe failed"} :
         vcall' = [vcall EXCEPT !.fn = "Current", !.arg = <<e>>,
                                !.ret = Current(Ret(vcall.current, e))]
    /\ UNCHANGED <<repoVars, day, scheme, cfgMain, cfgDev, inherited, pc, f, loc,
                   calls, pre, result>>

NextVersion ==
    \/ CalVer_Next \/ SemVer_Next
    \/ Versioner_SetPrerelease \/ Versioner_RemovePrerelease
    \/ Versioner_IsValid
    \/ Repository_FormatTag
    \/ SemVer_IncrementPrerelease
    \/ Versioner_Current

VersionSpec == InitVersion /\ [][NextVersion]_vars

(***************************************************************************)
(* What a command's log and result show.                                   *)
(***************************************************************************)
Returned(cmd) == pc = "returned" /\ result.cmd = cmd

Releases(bs) == {b \in bs : HasPrefix(b, StrReleasePrefix)}

Hotfixes(bs) == {b \in bs : HasPrefix(b, StrHotfixPrefix)}

\* the branches a finish command looks for
Matching(cmd, bs) == IF cmd = "ReleaseFinish" THEN Releases(bs) ELSE Hotfixes(bs)

IsWrite(c) == c.kind = "write"

IsChange(c) == c.kind = "write" /\ c.call # "Checkout"

\* the mutating calls of the log, and those other than Checkout
Writes == SelectSeq(calls, IsWrite)

Changes == SelectSeq(calls, IsChange)

CallNames(s) == [i \in 1..Len(s) |-> s[i].call]

\* the branch names auto-detection finds in the repository the command found
DetectedMain == IF StrMain \in pre.branches THEN StrMain ELSE StrMaster

DetectedDevelop == IF StrDevelop \in pre.branches THEN StrDevelop
                   ELSE IF StrDevelopment \in pre.branches THEN StrDevelopment
                   ELSE StrDev

\* the main and develop branches of a command: the release flow takes the
\* configured names, the hotfix flow detects them
MainOf(cmd) == IF cmd \in {"ReleaseStart", "ReleaseFinish"} /\ cfgMain # <<>>
               THEN cfgMain ELSE DetectedMain

DevelopOf(cmd) == IF cmd \in {"ReleaseStart", "ReleaseFinish"} /\ cfgDev # <<>>
                  THEN cfgDev ELSE DetectedDevelop

FinishCommands == {"ReleaseFinish", "HotfixFinish"}

FinishOrder == <<"Merge", "CreateTag", "Merge", "PushWithTags", "DeleteBranch">>

(***************************************************************************)
(* C1. A finish that returns success has issued, Checkouts aside, Merge of *)
(* the branch into main with --no-ff, CreateTag, Merge of main into        *)
(* develop with --no-ff, PushWithTags of main and develop, DeleteBranch of *)
(* the branch, in that order; CreateTag was issued with main checked out,  *)
(* and the tag it made is on main.                                         *)
(***************************************************************************)
C1_FinishCallOrder ==
    \A cmd \in FinishCommands :
        (Returned(cmd) /\ result.err = "") =>
            LET m == Changes
                found == Matching(cmd, pre.branches)
                main == MainOf(cmd)
                develop == DevelopOf(cmd)
                made == tags[Len(pre.tags) + 1]
            IN /\ Cardinality(found) = 1
               /\ Len(m) >= 5
               /\ CallNames(SubSeq(m, 1, 5)) = FinishOrder
               /\ \A i \in 1..4 : m[i].ok
               /\ m[1].arg \in found /\ m[1].arg2 = StrNoFF /\ m[1].on = main
               /\ m[2].on = main
               /\ m[3].arg = main /\ m[3].arg2 = StrNoFF /\ m[3].on = develop
               /\ m[4].arg = main /\ m[4].arg2 = develop
               /\ m[5].arg \in found
               /\ \A i \in 6..Len(m) : result.startNew /\ m[i].call = "CreateBranch"
               /\ Len(tags) = Len(pre.tags) + 1
               /\ made.name = m[2].arg /\ made.on = main
               /\ made.name \in reach[main]

C1_Witness ==
    /\ Returned("ReleaseFinish") /\ result.err = "" /\ ~result.startNew
    /\ Len(Changes) = 5
    /\ Len(tags) = Len(pre.tags) + 1

(***************************************************************************)
(* C2. No step of any of the four commands takes a repository with at most *)
(* one release/* branch and at most one hotfix/* branch to a repository    *)
(* with more.                                                              *)
(***************************************************************************)
AtMostOne == /\ Cardinality(Releases(branches)) <= 1
             /\ Cardinality(Hotfixes(branches)) <= 1

C2_AtMostOneInProgress == [][AtMostOne => AtMostOne']_vars

C2_Witness ==
    /\ Returned("ReleaseStart") /\ result.err = "release already in progress"
    /\ Cardinality(Releases(branches)) = 1
    /\ Cardinality(Hotfixes(branches)) = 1

(***************************************************************************)
(* C3. ReleaseStart returns an error and creates no branch when a          *)
(* release/* branch exists or the working tree is dirty; otherwise, when   *)
(* the version is computed (and, outside dry-run, every git command it     *)
(* runs succeeds), it creates exactly one branch, release/<version>, from  *)
(* develop.                                                                *)
(***************************************************************************)
C3_ReleaseStartCases ==
    Returned("ReleaseStart") =>
        LET new == branches \ pre.branches
            allOk == \A i \in 1..Len(calls) : calls[i].ok
            last == calls[Len(calls)]
        IN /\ Releases(pre.branches) # {} => (result.err # "" /\ new = {})
           /\ pre.dirty => (result.err # "" /\ new = {})
           /\ (Releases(pre.branches) = {} /\ ~pre.dirty /\ allOk /\ ~result.dryRun)
                 => /\ result.err = ""
                    /\ pre.branches \subseteq branches
                    /\ Cardinality(new) = 1
                    /\ new \subseteq Releases(branches)
                    /\ last.call = "CreateBranch" /\ last.arg \in new
                    /\ last.arg2 = DevelopOf("ReleaseStart")

(***************************************************************************)
(* C4. A finish whose listing finds no matching branch fails with "no      *)
(* release in progress" ("no hotfix in progress"), one that finds more     *)
(* than one with "multiple releases in progress" ("multiple hotfixes in    *)
(* progress"), and in both cases no mutating call is issued.               *)
(***************************************************************************)
C4_FinishNeedsOneBranch ==
    \A cmd \in FinishCommands :
        (Returned(cmd) /\ Len(calls) > 0 /\ calls[1].ok) =>
            LET n == Cardinality(Matching(cmd, pre.branches))
                none == IF cmd = "ReleaseFinish" THEN "no release in progress"
                        ELSE "no hotfix in progress"
                many == IF cmd = "ReleaseFinish" THEN "multiple releases in progress"
                        ELSE "multiple hotfixes in progress"
            IN /\ n = 0 => (result.err = none /\ Writes = <<>>)
               /\ n > 1 => (result.err = many /\ Writes = <<>>)

(***************************************************************************)
(* C5. A command that fails because the working tree is dirty has issued   *)
(* one mutating call, the Checkout of the branch it works on (develop for  *)
(* ReleaseStart, main for HotfixStart, the release or hotfix branch for    *)
(* the finishes), which is the checked-out branch when it returns; it has  *)
(* issued none of CreateBranch, Merge, CreateTag, PushWithTags and         *)
(* DeleteBranch, so the branches, the tags and the remote are as before.   *)
(***************************************************************************)
DirtyErrors == {"uncommitted changes in working directory",
                "uncommitted changes in release branch",
                "uncommitted changes in hotfix branch"}

FailedDirty == pc = "returned" /\ result.err \in DirtyErrors

C5_DirtyAbortsAfterCheckout ==
    FailedDirty =>
        LET w == Writes
            target == IF result.cmd = "ReleaseStart" THEN {DevelopOf(result.cmd)}
                      ELSE IF result.cmd = "HotfixStart" THEN {MainOf(result.cmd)}
                      ELSE Matching(result.cmd, pre.branches)
        IN /\ dirty
           /\ Len(w) = 1
           /\ w[1].call = "Checkout" /\ w[1].ok
           /\ target = {w[1].arg}
           /\ head = w[1].arg
           /\ branches = pre.branches /\ tags = pre.tags /\ pushed = pre.pushed

C5_Witness == FailedDirty /\ result.cmd = "HotfixStart" /\ head # pre.head

\* C5 as the spec states it: no mutating call at all, Checkout included, and
\* the checked-out branch as before the command
C5_NoCallBeforeDirtyAbort ==
    FailedDirty => (Writes = <<>> /\ head = pre.head)

(***************************************************************************)
(* C6. A call that fails, DeleteBranch aside, is the last call of its      *)
(* command, which returns an error; what the calls before it did stays     *)
(* (tags made, merges done, branches created, the branch checked out); and *)
(* PushWithTags and DeleteBranch are issued, and the remote or the branch  *)
(* set is changed, only after a successful Merge, CreateTag and Merge.     *)
(***************************************************************************)
Fatal(c) == ~c.ok /\ c.call # "DeleteBranch"

Done(i, name) == calls[i].call = name /\ calls[i].ok

IsMergeOrTagDone(c) == c.ok /\ c.call \in {"Merge", "CreateTag"}

\* among the first n - 1 calls: a Merge, then a CreateTag, then a Merge, all
\* successful
MergedAndTaggedBefore(n) ==
    LET c == SelectSeq(SubSeq(calls, 1, n - 1), IsMergeOrTagDone)
    IN \E j \in 2..(Len(c) - 1) :
          /\ c[j].call = "CreateTag"
          /\ \E i \in 1..(j - 1) : c[i].call = "Merge"
          /\ \E k \in (j + 1)..Len(c) : c[k].call = "Merge"

C6_AbortAtFirstFailure ==
    /\ \A i \in 1..Len(calls) :
          Fatal(calls[i]) => /\ i = Len(calls)
                             /\ pc = "returned" /\ result.err # ""
    /\ \A i \in 1..Len(calls) :
          calls[i].call \in {"PushWithTags", "DeleteBranch"} => MergedAndTaggedBefore(i)
    /\ (pc # "idle" /\ (pushed # pre.pushed \/ ~(pre.branches \subseteq branches)))
          => MergedAndTaggedBefore(Len(calls) + 1)
    /\ (pc # "idle" /\ ~result.dryRun /\ Writes # <<>>) =>
          LET last == Writes[Len(Writes)]
          IN (last.ok /\ last.call \in {"Checkout", "CreateBranch"}) => head = last.arg
    /\ (pc # "idle" /\ ~result.dryRun) =>
          \A i \in 1..Len(calls) :
              /\ Done(i, "CreateTag") =>
                    calls[i].arg \in TagNames /\ calls[i].arg \in reach[calls[i].on]
              /\ Done(i, "Merge") =>
                    pre.reach[calls[i].arg] \subseteq reach[calls[i].on]
              /\ Done(i, "CreateBranch") => calls[i].arg \in branches

C6_Witness ==
    /\ pc = "returned" /\ result.err = "failed to merge to develop"
    /\ Len(tags) = Len(pre.tags) + 1
    /\ \E i \in 1..Len(calls) : Done(i, "Merge")
    /\ pushed = pre.pushed /\ branches = pre.branches

(***************************************************************************)
(* C7. A finish in which DeleteBranch fails and every other call succeeds  *)
(* returns success, as it does when DeleteBranch succeeds too, whatever    *)
(* the chained-restart flag.                                               *)
(***************************************************************************)
C7_DeleteFailureHarmless ==
    \A cmd \in FinishCommands :
        (/\ Returned(cmd)
         /\ \E i \in 1..Len(calls) : calls[i].call = "DeleteBranch" /\ ~calls[i].ok
         /\ \A i \in 1..Len(calls) : calls[i].ok \/ calls[i].call = "DeleteBranch")
            => result.err = ""

(***************************************************************************)
(* C8. A finish without chained restart that returns success ended with    *)
(* DeleteBranch of the branch it found; when that call succeeded no        *)
(* release/ (hotfix/) branch is left, and when it failed the branch is   *)
(* still there although success is returned.                               *)
(***************************************************************************)
FinishedOk(cmd) == Returned(cmd) /\ result.err = "" /\ ~result.startNew

C8_BranchGoneWhenDeleted ==
    \A cmd \in FinishCommands :
        FinishedOk(cmd) =>
            LET d == calls[Len(calls)]
            IN /\ d.call = "DeleteBranch"
               /\ Matching(cmd, pre.branches) = {d.arg}
               /\ d.ok => Matching(cmd, branches) = {}
               /\ ~d.ok => Matching(cmd, branches) = {d.arg}

C8_Witness ==
    /\ FinishedOk("ReleaseFinish")
    /\ Releases(pre.branches) # {} /\ Releases(branches) = {}

\* C8 as the spec states it: after a successful finish no matching branch
C8_NoBranchAfterFinish ==
    \A cmd \in FinishCommands :
        FinishedOk(cmd) => Matching(cmd, branches) = {}

(***************************************************************************)
(* C9. While and after a command runs in dry-run mode the branches, the    *)
(* tags, the checked-out branch and the remote are what they were when it  *)
(* was invoked.                                                            *)
(***************************************************************************)
C9_DryRunChangesNothing ==
    (pc # "idle" /\ result.dryRun) =>
        /\ branches = pre.branches
        /\ tags = pre.tags
        /\ head = pre.head
        /\ pushed = pre.pushed
        /\ reach = pre.reach

C9_Witness ==
    /\ Returned("HotfixStart") /\ result.dryRun /\ result.err = ""
    /\ \E i \in 1..Len(calls) : calls[i].call = "CreateBranch"
    /\ \E i \in 1..Len(calls) : calls[i].call = "Checkout" /\ calls[i].arg # head

(***************************************************************************)
(* C10. In dry-run mode the queries see the repository: ReleaseStart fails *)
(* with "release already in progress" when a release/* branch exists,      *)
(* ReleaseFinish finds the release branch when there is exactly one, and a *)
(* start in a dirty working tree fails.                                    *)
(***************************************************************************)
C10_DryRunReadsRepository ==
    result.dryRun =>
        /\ (Returned("ReleaseStart") /\ Releases(branches) # {})
              => result.err = "release already in progress"
        /\ (Returned("ReleaseFinish") /\ Cardinality(Releases(branches)) = 1)
              => result.err # "no release in progress"
        /\ (Returned("HotfixStart") /\ Hotfixes(branches) = {} /\ dirty)
              => result.err = "uncommitted changes in working directory"

(***************************************************************************)
(* C11. ReleaseStart on a clean tree with no release/ branch, every git    *)
(* command succeeding, returns success while a hotfix/ branch exists (and  *)
(* outside dry-run has made a release/ branch); HotfixStart likewise with  *)
(* the kinds exchanged; and a finish never names a branch of the other     *)
(* kind in CreateBranch, DeleteBranch or Merge, and leaves the branches of *)
(* the other kind as they were.                                            *)
(***************************************************************************)
AllCallsOk == \A i \in 1..Len(calls) : calls[i].ok

\* the call is CreateBranch, DeleteBranch or Merge of a branch with the prefix
Touches(c, prefix) ==
    /\ c.call \in {"CreateBranch", "DeleteBranch", "Merge"}
    /\ HasPrefix(c.arg, prefix)

C11_ReleaseAndHotfixIndependent ==
    /\ (/\ Returned("ReleaseStart") /\ AllCallsOk
        /\ Releases(pre.branches) = {} /\ ~pre.dirty
        /\ Hotfixes(pre.branches) # {})
          => /\ result.err = ""
             /\ ~result.dryRun => Cardinality(Releases(branches)) = 1
             /\ Hotfixes(branches) = Hotfixes(pre.branches)
    /\ (/\ Returned("HotfixStart") /\ AllCallsOk
        /\ Hotfixes(pre.branches) = {} /\ ~pre.dirty
        /\ Releases(pre.branches) # {})
          => /\ result.err = ""
             /\ ~result.dryRun => Cardinality(Hotfixes(branches)) = 1
             /\ Releases(branches) = Releases(pre.branches)
    /\ (pc # "idle" /\ result.cmd = "ReleaseFinish")
          => /\ \A i \in 1..Len(calls) : ~Touches(calls[i], StrHotfixPrefix)
             /\ Hotfixes(branches) = Hotfixes(pre.branches)
    /\ (pc # "idle" /\ result.cmd = "HotfixFinish")
          => /\ \A i \in 1..Len(calls) : ~Touches(calls[i], StrReleasePrefix)
             /\ Releases(branches) = Releases(pre.branches)

C11_Witness ==
    /\ Returned("ReleaseStart") /\ ~result.dryRun /\ result.err = ""
    /\ Hotfixes(pre.branches) # {}
    /\ Releases(pre.branches) = {} /\ Cardinality(Releases(branches)) = 1

(***************************************************************************)
(* C12. With both branch names configured, every command uses exactly      *)
(* those names: a Checkout is of the configured main or develop branch or  *)
(* of a release/ or hotfix/ branch, a release branch is created from the   *)
(* configured develop branch and a hotfix branch from the configured main  *)
(* branch, a Merge is into the configured main or develop branch, and the  *)
(* push names the configured main and develop branches.                    *)
(***************************************************************************)
UsesConfigured(c) ==
    /\ c.call = "Checkout" =>
         \/ c.arg \in {cfgMain, cfgDev}
         \/ HasPrefix(c.arg, StrReleasePrefix) \/ HasPrefix(c.arg, StrHotfixPrefix)
    /\ c.call = "CreateBranch" =>
         c.arg2 = (IF HasPrefix(c.arg, StrReleasePrefix) THEN cfgDev ELSE cfgMain)
    /\ (c.call = "Merge" /\ ~result.dryRun) => c.on \in {cfgMain, cfgDev}
    /\ c.call = "PushWithTags" => c.arg = cfgMain /\ c.arg2 = cfgDev

C12_ConfiguredNamesUsed ==
    (pc # "idle" /\ cfgMain # <<>> /\ cfgDev # <<>>)
        => \A i \in 1..Len(calls) : UsesConfigured(calls[i])

(***************************************************************************)
(* C13. A finish runs ReleaseStart at most once, and only ReleaseFinish    *)
(* with startNew set does: the start begins right after the DeleteBranch   *)
(* attempt, when both merges, the tag and the push have been issued in     *)
(* order and every call but the deletion succeeded; a finish that got as   *)
(* far as the deletion has run it, and then returns what that ReleaseStart *)
(* returns. With startNew unset, and in HotfixFinish, no step of           *)
(* ReleaseStart is taken.                                                  *)
(***************************************************************************)
StartLabels == {"RS_list", "RS_checkout", "RS_status", "RS_version", "RS_create"}

\* the positions in a finish's log where a ReleaseStart begins: a branch
\* listing after the finish's own, which is its first call
StartsAt == {i \in 2..Len(calls) : calls[i].call = "ListBranches"}

\* ReleaseStart, having issued the calls of log last, returns e
StartReturns(log, e) ==
    /\ Len(log) > 0
    /\ LET c == log[Len(log)]
       IN CASE c.call = "ListBranches" ->
                 e = (IF c.ok THEN "release already in progress"
                      ELSE "failed to list release branches")
            [] c.call = "Checkout" -> ~c.ok /\ e = "failed to checkout"
            [] c.call = "HasUncommittedChanges" ->
                 e = (IF c.ok THEN "uncommitted changes in working directory"
                      ELSE "git status failed")
            [] c.call = "LatestTag" ->
                 e \in {"failed to get current version",
                        "failed to calculate next version"}
            [] c.call = "CreateBranch" ->
                 e = (IF c.ok THEN "" ELSE "failed to create release branch")
            [] OTHER -> FALSE

C13_ChainedStartOnceAfterFinish ==
    (pc # "idle" /\ result.cmd \in FinishCommands) =>
        IF result.cmd = "ReleaseFinish" /\ result.startNew
        THEN /\ Cardinality(StartsAt) <= 1
             /\ pc \in StartLabels \ {"RS_list"} => StartsAt # {}
             /\ (pc = "returned" /\ \E i \in 1..Len(calls) :
                                       calls[i].call = "DeleteBranch")
                   => StartsAt # {}
             /\ \A k \in StartsAt :
                  /\ calls[k - 1].call = "DeleteBranch"
                  /\ CallNames(SelectSeq(SubSeq(calls, 1, k - 1), IsChange))
                        = FinishOrder
                  /\ \A j \in 1..(k - 2) : calls[j].ok
                  /\ pc = "returned" =>
                        StartReturns(SubSeq(calls, k, Len(calls)), result.err)
        ELSE /\ StartsAt = {}
             /\ pc \notin StartLabels
             /\ \A i \in 1..Len(calls) : calls[i].call # "CreateBranch"

C13_Witness ==
    /\ Returned("ReleaseFinish") /\ result.startNew /\ ~result.dryRun
    /\ result.err = ""
    /\ Cardinality(StartsAt) = 1
    /\ calls[Len(calls)].call = "CreateBranch"
    /\ Releases(branches) # {} /\ Releases(branches) # Releases(pre.branches)

(***************************************************************************)
(* C14. Under SemVer in a repository without tags, outside dry-run and     *)
(* with every git command succeeding: a ReleaseStart that finds no release *)
(* branch creates the branch release/0.1.0-rc.0, and a ReleaseFinish that  *)
(* finds that branch creates the tag v0.1.0 and deletes the branch.        *)
(***************************************************************************)
StrFirstRelease ==
    StrReleasePrefix \o <<"0", ".", "1", ".", "0", "-", "r", "c", ".", "0">>

StrFirstTag == <<"v", "0", ".", "1", ".", "0">>

C14_FirstSemVerRelease ==
    (/\ pc = "returned" /\ scheme = SchemeSemVer /\ pre.tags = <<>>
     /\ ~result.dryRun /\ AllCallsOk /\ ~pre.dirty)
        => /\ (result.cmd = "ReleaseStart" /\ Releases(pre.branches) = {})
                => /\ result.err = ""
                   /\ branches = pre.branches \cup {StrFirstRelease}
                   /\ StrFirstRelease \notin pre.branches
           /\ (result.cmd = "ReleaseFinish"
                    /\ Releases(pre.branches) = {StrFirstRelease})
                => /\ StrFirstTag \in TagNames
                   /\ Len(tags) = 1
                   /\ StrFirstRelease \notin branches
                   /\ \E i \in 1..Len(calls) :
                        /\ calls[i].call = "DeleteBranch"
                        /\ calls[i].arg = StrFirstRelease

C14_Witness ==
    /\ Returned("ReleaseFinish") /\ scheme = SchemeSemVer /\ pre.tags = <<>>
    /\ ~result.dryRun /\ AllCallsOk /\ result.err = ""
    /\ Releases(pre.branches) = {StrFirstRelease}
    /\ TagNames = {StrFirstTag} /\ StrFirstRelease \notin branches

(***************************************************************************)
(* C15. Outside dry-run, the CreateTag call of ReleaseFinish for the       *)
(* branch release/<v> names the tag FormatTag(RemovePrerelease(v)) with    *)
(* the message "Release " RemovePrerelease(v), and that of HotfixFinish    *)
(* for hotfix/<v> names FormatTag(v) with the message "Hotfix " v; a       *)
(* finish that got through all its steps has added exactly that one tag;   *)
(* and no command ever removes or changes a tag that was there.            *)
(***************************************************************************)
\* the version a finish command tags: that of the one branch it found
TaggedVersion(cmd) ==
    LET b == CHOOSE x \in Matching(cmd, pre.branches) : TRUE
    IN IF cmd = "ReleaseFinish"
       THEN VersionerRemovePrerelease(scheme, TrimPrefix(b, StrReleasePrefix))
       ELSE TrimPrefix(b, StrHotfixPrefix)

\* the tag name for the version, by the tags the command found
TagFor(version) ==
    LET prefix == VersionTagPrefix({pre.tags[i].name : i \in 1..Len(pre.tags)})
    IN IF HasPrefix(version, StrV) /\ prefix = StrV THEN version
       ELSE prefix \o version

MessageOf(cmd) == IF cmd = "ReleaseFinish" THEN StrReleaseMsg ELSE StrHotfixMsg

C15_OneTagPerFinish ==
    /\ pc # "idle" =>
         /\ Len(tags) >= Len(pre.tags)
         /\ SubSeq(tags, 1, Len(pre.tags)) = pre.tags
         /\ \A i \in 1..Len(calls) : calls[i].call # "DeleteTag"
         /\ result.cmd \notin FinishCommands => tags = pre.tags
    /\ (pc # "idle" /\ result.cmd \in FinishCommands /\ ~result.dryRun) =>
         /\ Len(tags) <= Len(pre.tags) + 1
         /\ \A i \in 1..Len(calls) :
              calls[i].call = "CreateTag" =>
                 /\ calls[i].arg = TagFor(TaggedVersion(result.cmd))
                 /\ calls[i].arg2 = MessageOf(result.cmd) \o TaggedVersion(result.cmd)
         /\ (\E i \in 1..Len(calls) : calls[i].call = "DeleteBranch") =>
                 /\ Len(tags) = Len(pre.tags) + 1
                 /\ tags[Len(tags)].name = TagFor(TaggedVersion(result.cmd))
                 /\ tags[Len(tags)].msg =
                       MessageOf(result.cmd) \o TaggedVersion(result.cmd)

C15_Witness ==
    /\ Returned("ReleaseFinish") /\ ~result.dryRun /\ result.err = ""
    /\ scheme = SchemeSemVer
    /\ Len(tags) = Len(pre.tags) + 1
    /\ TaggedVersion("ReleaseFinish") #
          TrimPrefix(CHOOSE x \in Releases(pre.branches) : TRUE, StrReleasePrefix)
    /\ tags[Len(tags)].msg = StrReleaseMsg \o TaggedVersion("ReleaseFinish")

(***************************************************************************)
(* C16. The branch ReleaseStart creates is release/<v> where, under        *)
(* SemVer, v is a version with the prerelease rc.0 and, under CalVer, v is *)
(* a bare date without any suffix. The branch HotfixStart creates is       *)
(* hotfix/<v> where v is exactly what Next gives for the Hotfix bump from  *)
(* the latest tag of the main branch, under SemVer a version without       *)
(* prerelease; outside dry-run its base is the main branch HotfixStart     *)
(* resolved, never the develop branch.                                     *)
(***************************************************************************)
\* the latest tag reachable from branch b in the repository the command found
LatestOn(b) ==
    LET r == {i \in 1..Len(pre.tags) : pre.tags[i].name \in pre.reach[b]}
    IN IF r = {} THEN <<>>
       ELSE pre.tags[CHOOSE i \in r : \A j \in r : j <= i].name

ReleaseVersionLabelled(v) ==
    IF scheme = SchemeSemVer
    THEN NewVersion(v).ok /\ NewVersion(v).pre = StrRc0
    ELSE calverPattern(v).ok /\ calverPattern(v).m4 = <<>> /\ v = FormatForToday(day)

HotfixVersionPlain(v) ==
    LET current == IF result.dryRun THEN <<>>
                   ELSE TrimPrefix(LatestOn(DetectedMain), StrV)
    IN /\ v = VersionerNext(scheme, current, BumpHotfix, day).ver
       /\ scheme = SchemeSemVer => NewVersion(v).ok /\ NewVersion(v).pre = <<>>
       /\ scheme = SchemeCalVer => calverPattern(v).ok /\ calverPattern(v).m4 # <<>>

C16_PrereleaseOnlyForSemVerRelease ==
    pc # "idle" =>
        \A i \in 1..Len(calls) :
            calls[i].call = "CreateBranch" =>
                IF result.cmd = "HotfixStart"
                THEN /\ HasPrefix(calls[i].arg, StrHotfixPrefix)
                     /\ HotfixVersionPlain(TrimPrefix(calls[i].arg, StrHotfixPrefix))
                     /\ ~result.dryRun =>
                           /\ calls[i].arg2 = DetectedMain
                           /\ calls[i].arg2 \notin {DetectedDevelop, cfgDev}
                ELSE /\ HasPrefix(calls[i].arg, StrReleasePrefix)
                     /\ ReleaseVersionLabelled(
                            TrimPrefix(calls[i].arg, StrReleasePrefix))

C16_Witness ==
    /\ Returned("HotfixStart") /\ ~result.dryRun /\ result.err = ""
    /\ scheme = SchemeSemVer /\ pre.tags # <<>>
    /\ Hotfixes(branches) # {}
    /\ calls[Len(calls)].call = "CreateBranch"
    /\ calls[Len(calls)].arg2 = DetectedMain

(***************************************************************************)
(* C17. When ReleaseStart or HotfixStart returns because the version       *)
(* could not be computed (Current or Next failed), it has issued exactly   *)
(* one mutating call, the successful Checkout of the develop branch        *)
(* (ReleaseStart) or of the main branch (HotfixStart), which is now the    *)
(* checked-out branch; no branch has been created, merged or deleted and   *)
(* the branches and tags are as the command found them.                    *)
(***************************************************************************)
VersionErrors == {"failed to get current version",
                  "failed to calculate next version"}

FailedVersion(cmd) == Returned(cmd) /\ result.err \in VersionErrors

C17_VersionFailureAfterCheckout ==
    \A cmd \in {"ReleaseStart", "HotfixStart"} :
        FailedVersion(cmd) =>
            /\ Len(Writes) = 1
            /\ Writes[1].call = "Checkout" /\ Writes[1].ok
            /\ Writes[1].arg = (IF cmd = "ReleaseStart" THEN DevelopOf(cmd)
                                ELSE MainOf(cmd))
            /\ head = Writes[1].arg
            /\ calls[Len(calls)].call = "LatestTag"
            /\ branches = pre.branches /\ tags = pre.tags
            /\ reach = pre.reach /\ pushed = pre.pushed

C17_Witness ==
    /\ FailedVersion("ReleaseStart")
    /\ result.err = "failed to calculate next version"
    /\ head # pre.head

\* C17 as stated: when the version computation fails in ReleaseStart or
\* HotfixStart, no branch has been created, checked out, merged or deleted.
C17_NoBranchTouchedOnVersionFailure ==
    \A cmd \in {"ReleaseStart", "HotfixStart"} :
        FailedVersion(cmd) => Writes = <<>> /\ head = pre.head

(***************************************************************************)
(* C18. CalVer Next with the bump Patch or Hotfix returns no error and     *)
(* today-(N+1) when current is a CalVer of today's date, N being its       *)
(* numeric suffix (0 when it has none), and today-1 when current has       *)
(* another date or is no CalVer; Patch and Hotfix return the same.         *)
(***************************************************************************)
CalledNext(sch) == vcall.fn = "Next" /\ scheme = sch

C18_CalVerHotfixNumbering ==
    (CalledNext(SchemeCalVer) /\ vcall.bump \in {BumpPatch, BumpHotfix}) =>
        LET today == FormatForToday(day)
            m == calverPattern(vcall.current)
            sameDay == m.ok /\ SubSeq(vcall.current, 1, 10) = today
            succ == IF m.m4 = <<>> THEN <<"1">> ELSE DecInc(StripZeros(m.m4))
        IN /\ vcall.ret.err = ""
           /\ vcall.ret.ver = today \o <<"-">> \o (IF sameDay THEN succ ELSE <<"1">>)
           /\ CalVerNext(vcall.current, BumpPatch, day)
                 = CalVerNext(vcall.current, BumpHotfix, day)

(***************************************************************************)
(* C19. CalVer Next with the bump Minor returns, for every current (empty  *)
(* and unparseable ones too), no error and the clock's date written        *)
(* YYYY.MM.DD: four, two and two digits, and nothing after them.           *)
(***************************************************************************)
C19_CalVerMinorIsToday ==
    (CalledNext(SchemeCalVer) /\ vcall.bump = BumpMinor) =>
        LET m == calverPattern(vcall.ret.ver)
            now == DateOf(day)
        IN /\ vcall.ret.err = ""
           /\ m.ok /\ m.m4 = <<>>
           /\ Atoi(m.m1) = now.y /\ Atoi(m.m2) = now.m /\ Atoi(m.m3) = now.d

C19_Witness ==
    /\ CalledNext(SchemeCalVer) /\ vcall.bump = BumpMinor
    /\ calverPattern(vcall.current).ok
    /\ SubSeq(vcall.current, 1, 10) # FormatForToday(day)
    /\ vcall.ret = Ret(FormatForToday(day), "")

(***************************************************************************)
(* C20. SemVer Next: from an empty current, Minor gives 0.1.0 and Patch or *)
(* Hotfix 0.0.1; from a current that parses, Minor gives the version with  *)
(* minor one higher and patch 0, and Patch or Hotfix the version with      *)
(* patch one higher; any other bump, and any non-empty current that does   *)
(* not parse, gives an error and no version.                               *)
(***************************************************************************)
C20_SemVerNextCases ==
    CalledNext(SchemeSemVer) =>
        LET v == NewVersion(vcall.current)
            n == NewVersion(vcall.ret.ver)
            failed == vcall.ret.err # "" /\ vcall.ret.ver = <<>>
        IN IF vcall.bump \notin {BumpMinor, BumpPatch, BumpHotfix} THEN failed
           ELSE IF vcall.current = <<>>
           THEN vcall.ret = (IF vcall.bump = BumpMinor
                             THEN Ret(<<"0", ".", "1", ".", "0">>, "")
                             ELSE Ret(<<"0", ".", "0", ".", "1">>, ""))
           ELSE IF ~v.ok THEN failed
           ELSE /\ vcall.ret.err = "" /\ n.ok /\ n.major = v.major
                /\ IF vcall.bump = BumpMinor
                   THEN n.minor = v.minor + 1 /\ n.patch = 0
                   ELSE n.minor = v.minor /\ n.patch = v.patch + 1

(***************************************************************************)
(* C21. For every current that is a valid SemVer and every label,          *)
(* RemovePrerelease(SetPrerelease(v, label)) is the release form of v:     *)
(* its major.minor.patch, and its build metadata if it has any, without    *)
(* prerelease. For CalVer, SetPrerelease and RemovePrerelease return their *)
(* version argument unchanged.                                             *)
(***************************************************************************)
ReleaseForm(version) ==
    VersionString([NewVersion(version) EXCEPT !.pre = <<>>])

C21_PrereleaseRoundTrip ==
    /\ (scheme = SchemeSemVer /\ vcall.fn = "RemovePrerelease(SetPrerelease)"
            /\ NewVersion(vcall.current).ok)
          => vcall.ret.ver = ReleaseForm(vcall.current)
    /\ (scheme = SchemeCalVer /\ vcall.fn \in {"SetPrerelease", "RemovePrerelease"})
          => vcall.ret.ver = vcall.current

(***************************************************************************)
(* C22. CalVer IsValid returns true exactly for the strings YYYY.MM.DD and *)
(* YYYY.MM.DD-N, with four, two and two digits and N a string of digits    *)
(* that denotes a positive integer, and false for every other string.      *)
(***************************************************************************)
IsCalVerForm(s) ==
    /\ Len(s) >= 10
    /\ \A i \in {1, 2, 3, 4, 6, 7, 9, 10} : IsDigit(s[i])
    /\ s[5] = "." /\ s[8] = "."
    /\ \/ Len(s) = 10
       \/ /\ Len(s) >= 12 /\ s[11] = "-"
          /\ \A i \in 12..Len(s) : IsDigit(s[i])
          /\ \E i \in 12..Len(s) : s[i] # "0"

C22_CalVerIsValidGrammar ==
    (scheme = SchemeCalVer /\ vcall.fn = "IsValid")
        => (vcall.valid <=> IsCalVerForm(vcall.current))

(***************************************************************************)
(* C23. No string is valid under both schemes: when IsValid of one scheme  *)
(* has returned true for a string, IsValid of the other scheme returns     *)
(* false for it.                                                           *)
(***************************************************************************)
C23_GrammarsDisjoint ==
    (vcall.fn = "IsValid" /\ vcall.valid)
        => IF scheme = SchemeCalVer THEN ~SemVerIsValid(vcall.current)
           ELSE ~CalVerIsValid(vcall.current)

(***************************************************************************)
(* C24. When FormatTag(version) returns without error, with V the number   *)
(* of existing tags that are a v followed by a digit and D the number of   *)
(* existing tags that start with a digit: a version that starts with v is  *)
(* returned as it is; any other version is returned with v in front when   *)
(* V >= D (so also on a tie and without tags) and as it is when V < D.     *)
(***************************************************************************)
C24_FormatTagPrefix ==
    (vcall.fn = "FormatTag" /\ vcall.ret.err = "") =>
        LET version == vcall.current
            V == Cardinality({t \in TagNames :
                     Len(t) >= 2 /\ t[1] = "v" /\ IsDigit(t[2])})
            D == Cardinality({t \in TagNames : Len(t) >= 1 /\ IsDigit(t[1])})
        IN vcall.ret.ver =
              (IF Len(version) >= 1 /\ version[1] = "v" THEN version
               ELSE IF V >= D THEN <<"v">> \o version
               ELSE version)

C24_Witness ==
    /\ vcall.fn = "FormatTag" /\ vcall.ret.err = ""
    /\ Len(tags) = 2 /\ tags[1].name[1] = "v" /\ tags[2].name = StrTagBare
    /\ vcall.current = StrTagBare
    /\ vcall.ret.ver = StrV \o StrTagBare

(***************************************************************************)
(* C25. IncrementPrerelease returns an error when the version does not     *)
(* parse or has no prerelease. Otherwise it returns the same               *)
(* major.minor.patch with, when the last dot-separated identifier of the   *)
(* prerelease is numeric, that identifier one higher and the others as     *)
(* they were, and, when it is not numeric, the prerelease as it was with   *)
(* .1 appended.                                                            *)
(***************************************************************************)
C25_IncrementPrereleaseCases ==
    vcall.fn = "IncrementPrerelease" =>
        LET v == NewVersion(vcall.current)
            n == NewVersion(vcall.ret.ver)
            segs == Split(v.pre, ".")
            last == segs[Len(segs)]
            kept == SubSeq(v.pre, 1, Len(v.pre) - Len(last))
        IN IF ~v.ok \/ v.pre = <<>> THEN vcall.ret.err # ""
           ELSE /\ vcall.ret.err = "" /\ n.ok
                /\ n.major = v.major /\ n.minor = v.minor /\ n.patch = v.patch
                /\ n.pre = (IF AllDigits(last) THEN kept \o Itoa(Atoi(last) + 1)
                            ELSE v.pre \o <<".", "1">>)

(***************************************************************************)
(* C26. Under both schemes Current returns an error exactly when the       *)
(* injected accessor returned one, and then the empty string with that     *)
(* error; otherwise it returns the accessor's tag without its first        *)
(* character when that is a v and unchanged when it is not, which is the   *)
(* empty string when there is no tag.                                      *)
(***************************************************************************)
C26_CurrentStripsOneV ==
    vcall.fn = "Current" =>
        LET tag == vcall.current
            e == vcall.arg[1]
        IN /\ (vcall.ret.err # "") <=> (e # "")
           /\ e # "" => vcall.ret = Ret(<<>>, e)
           /\ e = "" => vcall.ret.ver = (IF Len(tag) >= 1 /\ tag[1] = "v"
                                         THEN SubSeq(tag, 2, Len(tag)) ELSE tag)

C26_Witness ==
    /\ vcall.fn = "Current" /\ vcall.arg = <<"">>
    /\ Len(vcall.current) > 1 /\ vcall.current[1] = "v"
    /\ vcall.ret = Ret(Tail(vcall.current), "")

\* the start commands
StartCommands == {"ReleaseStart", "HotfixStart"}

\* the tag name the matching finish computes for the branch a start created
FutureTag(b) ==
    TagFor(IF HasPrefix(b, StrReleasePrefix)
           THEN VersionerRemovePrerelease(scheme, TrimPrefix(b, StrReleasePrefix))
           ELSE TrimPrefix(b, StrHotfixPrefix))

(***************************************************************************)
(* C27. When ReleaseStart or HotfixStart has returned success on a running *)
(* executor, the tag name the matching finish computes for the branch it   *)
(* created is not the name of an existing tag; and a running finish never  *)
(* stands before CreateTag with a name that is taken.                      *)
(***************************************************************************)
C27_StartedVersionHasNoTag ==
    /\ \A cmd \in StartCommands :
         (Returned(cmd) /\ result.err = "" /\ ~result.dryRun) =>
             \A b \in branches \ pre.branches : FutureTag(b) \notin TagNames
    /\ (pc \in {"RF_createTag", "HF_createTag"} /\ ~f.dryRun) =>
           loc.tagName \notin TagNames

\* a finish is running, or has returned, over a branch whose tag it found made
Rerun(cmd) ==
    /\ pc # "idle" /\ result.cmd = cmd /\ ~result.dryRun
    /\ Cardinality(Matching(cmd, pre.branches)) = 1
    /\ TagFor(TaggedVersion(cmd)) \in {pre.tags[i].name : i \in 1..Len(pre.tags)}

\* no call other than CreateTag failed
NoOtherFailure == \A i \in 1..Len(calls) : calls[i].ok \/ calls[i].call = "CreateTag"

(***************************************************************************)
(* C28. A finish run on a branch whose tag exists already, as after a      *)
(* finish that failed once the tag was made, creates no tag, issues no     *)
(* Merge other than that of the branch into main, no PushWithTags and no   *)
(* DeleteBranch, and returns an error. When no call before it failed, the  *)
(* error is that of CreateTag if the working tree was clean, and that of   *)
(* the uncommitted-changes check, with no merge at all, if the failed      *)
(* merge left the tree dirty.                                              *)
(***************************************************************************)
C28_RerunStopsAtCreateTag ==
    \A cmd \in FinishCommands :
        Rerun(cmd) =>
            LET b == CHOOSE x \in Matching(cmd, pre.branches) : TRUE
            IN /\ tags = pre.tags
               /\ \A i \in 1..Len(calls) :
                    /\ calls[i].call \notin {"PushWithTags", "DeleteBranch"}
                    /\ calls[i].call = "Merge" =>
                          calls[i].arg = b /\ calls[i].on = MainOf(cmd)
                    /\ calls[i].call = "CreateTag" => ~calls[i].ok
               /\ pc = "returned" =>
                    /\ result.err # ""
                    /\ NoOtherFailure =>
                         IF pre.dirty
                         THEN /\ calls[Len(calls)].call = "HasUncommittedChanges"
                              /\ Changes = <<>>
                         ELSE /\ calls[Len(calls)].call = "CreateTag"
                              /\ result.err = "failed to create tag"

C28_Witness ==
    /\ Rerun("ReleaseFinish") /\ pc = "returned"
    /\ ~pre.dirty /\ NoOtherFailure
    /\ CallNames(Changes) = <<"Merge", "CreateTag">>
    /\ result.err = "failed to create tag"

\* C28 as written: when no other call fails, the second run gets to CreateTag
\* and fails there.
C28_RerunFailsAtCreateTag ==
    \A cmd \in FinishCommands :
        (Rerun(cmd) /\ pc = "returned" /\ NoOtherFailure) =>
            /\ calls[Len(calls)].call = "CreateTag"
            /\ result.err = "failed to create tag"

\* the command returned success on a running executor
Succeeded(cmd) == Returned(cmd) /\ result.err = "" /\ ~result.dryRun

\* the last call created the branch that is checked out
OnCreatedBranch(prefix) ==
    LET c == calls[Len(calls)]
    IN /\ c.call = "CreateBranch" /\ c.ok
       /\ head = c.arg /\ HasPrefix(head, prefix) /\ head \in branches

\* every DeleteBranch was issued on the command's develop branch, for another
\* branch
DeletesFromDevelop ==
    \A i \in 1..Len(calls) :
        calls[i].call = "DeleteBranch" =>
            /\ calls[i].on = DevelopOf(result.cmd)
            /\ calls[i].arg # calls[i].on

(***************************************************************************)
(* C29. On a running executor, a successful ReleaseStart or HotfixStart    *)
(* leaves the branch it created checked out; a successful HotfixFinish, or *)
(* ReleaseFinish without the chained restart, leaves the develop branch    *)
(* checked out; a successful ReleaseFinish with the chained restart leaves *)
(* the release branch its ReleaseStart created checked out; and every      *)
(* DeleteBranch is issued with the develop branch checked out, for a       *)
(* branch other than it.                                                   *)
(***************************************************************************)
C29_HeadByStepReached ==
    /\ Succeeded("ReleaseStart") => OnCreatedBranch(StrReleasePrefix)
    /\ Succeeded("HotfixStart") => OnCreatedBranch(StrHotfixPrefix)
    /\ Succeeded("HotfixFinish") => head = DevelopOf("HotfixFinish")
    /\ Succeeded("ReleaseFinish") =>
          IF result.startNew THEN OnCreatedBranch(StrReleasePrefix)
          ELSE head = DevelopOf("ReleaseFinish")
    /\ pc # "idle" => DeletesFromDevelop

C29_Witness ==
    /\ Succeeded("ReleaseFinish") /\ result.startNew
    /\ OnCreatedBranch(StrReleasePrefix)
    /\ head # DevelopOf("ReleaseFinish")
    /\ \E i \in 1..Len(calls) : calls[i].call = "DeleteBranch" /\ calls[i].ok

\* C29 as written: every successful finish leaves the develop branch checked out
C29_FinishLeavesDevelop ==
    /\ Succeeded("ReleaseStart") => OnCreatedBranch(StrReleasePrefix)
    /\ Succeeded("HotfixStart") => OnCreatedBranch(StrHotfixPrefix)
    /\ \A cmd \in FinishCommands : Succeeded(cmd) => head = DevelopOf(cmd)
    /\ pc # "idle" => DeletesFromDevelop

\* the statements of each flow operation
LabelsOf(cmd) ==
    CASE cmd = "ReleaseStart" -> StartLabels
      [] cmd = "HotfixStart" ->
           {"HS_list", "HS_getMain", "HS_checkout", "HS_status", "HS_version",
            "HS_create"}
      [] cmd = "ReleaseFinish" ->
           {"RF_list", "RF_checkoutRelease", "RF_status", "RF_checkoutMain",
            "RF_mergeMain", "RF_formatTag", "RF_createTag", "RF_checkoutDevelop",
            "RF_mergeDevelop", "RF_push", "RF_delete"}
      [] cmd = "HotfixFinish" ->
           {"HF_list", "HF_getBranches", "HF_checkoutHotfix", "HF_status",
            "HF_checkoutMain", "HF_mergeMain", "HF_formatTag", "HF_createTag",
            "HF_checkoutDevelop", "HF_mergeDevelop", "HF_push", "HF_delete"}
      [] OTHER -> {}

\* the Repository calls an operation issues at most: one per statement, two in
\* HotfixFinish's step 2, and those of ReleaseStart after a chained finish
CallBudget(cmd, startNew) ==
    Cardinality(LabelsOf(cmd))
       + (IF cmd = "HotfixFinish" THEN 1 ELSE 0)
       + (IF cmd = "ReleaseFinish" /\ startNew THEN Cardinality(StartLabels) ELSE 0)

\* a command is running within its own statements and its budget of calls
WithinOperation ==
    pc # "idle" =>
        /\ Len(calls) <= CallBudget(result.cmd, result.startNew)
        /\ pc \in LabelsOf(result.cmd) \cup {"returned"}
                     \cup (IF result.cmd = "ReleaseFinish" /\ result.startNew
                           THEN StartLabels ELSE {})
        /\ Cardinality({i \in 1..Len(calls) : calls[i].call = "ListBranches"})
              <= (IF result.cmd = "ReleaseFinish" /\ result.startNew THEN 2 ELSE 1)

\* a step of a running command goes to another statement or returns, and
\* issues a Repository call
Advances == pc \in Statements => (StepTaken /\ Len(calls') >= Len(calls) + 1)

(***************************************************************************)
(* C30. A flow operation that was invoked returns, with success or with an *)
(* error, and until then it stays within its own statements and within a   *)
(* fixed number of Repository calls: 5 for ReleaseStart, 6 for             *)
(* HotfixStart, 13 for HotfixFinish, 11 for ReleaseFinish and 16 with the  *)
(* chained restart, whose ReleaseStart is entered at most once; no         *)
(* statement is executed twice.                                            *)
(***************************************************************************)
C30_OperationsTerminate ==
    /\ []WithinOperation
    /\ [][Advances]_vars
    /\ (pc # "idle") ~> (pc = "returned")

C30_Witness ==
    /\ Returned("ReleaseFinish") /\ result.startNew /\ ~result.dryRun
    /\ Len(calls) = CallBudget("ReleaseFinish", TRUE)
    /\ \E i \in 1..Len(calls) : ~calls[i].ok

====
